---- MODULE Spec2Model ----
(***************************************************************************)
(* Model of the GitLab time-tracking dashboard: the Workitem / Issue tree  *)
(* (src/Workitem.py, src/Issue.py), the tree builder (src/timetracker.py)  *)
(* and the cache, date filters and aggregators of src/app.py.              *)
(*                                                                         *)
(* Units.  Hours are kept exactly, as integer seconds (the code divides    *)
(* the remote's seconds by 3600): hoursSpent = 5400 stands for 1.5 h.      *)
(* round(x, 2) of an hour figure yields centihours (units of 0.01 h = 36   *)
(* s); round(x, 4) of a share yields units of 0.0001.  A quotient a / b is *)
(* the pair <<a, b>>.                                                      *)
(***************************************************************************)
EXTENDS Integers, Sequences, FiniteSets, TLC

VARIABLES
    items,      \* the heap of Workitem objects: reference -> object
    epic_tree,  \* app.epic_tree: reference of the cached root, or None
    csv_rows,   \* app.csv_rows
    users,      \* app.users
    labels,     \* app.labels
    tt_users,   \* timetracker.users
    tt_labels,  \* timetracker.labels
    remote,     \* the data the remote source answers with
    issues,     \* the row list handed to an aggregator
    result,     \* the last completed call: its name, arguments and return value
    accCalls,   \* history: reference -> number of accumulateTimes calls started on it
    threads     \* each running load_data call: its position and its local variables

vars == <<items, epic_tree, csv_rows, users, labels, tt_users, tt_labels,
          remote, issues, result, accCalls, threads>>

\* Python's None, for an id, a parent link and the cached tree.
None == 0

NoResult == [op |-> "none"]

----------------------------------------------------------------------------
(* Generic helpers *)

Range(s) == {s[k] : k \in DOMAIN s}

RECURSIVE SumSeq(_)
SumSeq(s) == IF s = <<>> THEN 0 ELSE Head(s) + SumSeq(Tail(s))

RECURSIVE SumOver(_, _)
\* sum of f[x] over the finite set S
SumOver(S, f) ==
    IF S = {} THEN 0
    ELSE LET x == CHOOSE y \in S : TRUE IN f[x] + SumOver(S \ {x}, f)

\* all sequences over S of length at most n
SeqsUpTo(S, n) == UNION {[1..k -> S] : k \in 0..n}

----------------------------------------------------------------------------
(* src/Workitem.py, src/Issue.py: the objects *)

Workitem(type, id) ==
    [type |-> type, id |-> id, parent |-> None,
     hoursSpent |-> 0, hoursEstimate |-> 0, children |-> <<>>]

\* Epic.py is not among the sources: an Epic is a Workitem tagged "epic".
Epic(id) == Workitem("epic", id)

NoDate == [fmt |-> "none"]

\* userTimeMap is a dict: its keys in insertion order, and each key's entries.
EmptyTimeMap == [order |-> <<>>, entries |-> <<>>]

\* labels and createdAt are attributes set later; reading them absent yields
\* [] and None (getLabels, getattr(e, 'createdAt', None)).
Issue(id) ==
    [type |-> "issue", id |-> id, parent |-> None,
     hoursSpent |-> 0, hoursEstimate |-> 0, children |-> <<>>,
     userTimeMap |-> EmptyTimeMap, labels |-> <<>>, createdAt |-> NoDate]

\* Workitem.__eq__ on two objects (neither is None)
WorkitemEq(a, b) == a.id = b.id

\* `item in self.children`: identity or __eq__
InChildren(h, self, item) ==
    \E k \in DOMAIN h[self].children :
        \/ h[self].children[k] = item
        \/ WorkitemEq(h[h[self].children[k]], h[item])

addChildAlways(h, self, item) ==
    [heap |-> [h EXCEPT ![item].parent = self,
                        ![self].children = Append(h[self].children, item)],
     ret  |-> TRUE]

\* Workitem.addChild: the heap after the call and the value returned
addChild(h, self, item) ==
    IF ~InChildren(h, self, item)
    THEN [heap |-> [[h EXCEPT ![item].parent = self]
                       EXCEPT ![self].children = Append(h[self].children, item)],
          ret  |-> TRUE]
    ELSE [heap |-> h, ret |-> FALSE]

RECURSIVE accumulateTimes(_, _)
RECURSIVE accumulateLoop(_, _, _)

\* the loop of accumulateTimes over self.children, from the k-th child on
accumulateLoop(h, self, k) ==
    IF k > Len(h[self].children)
    THEN [heap |-> h, e |-> h[self].hoursEstimate, s |-> h[self].hoursSpent]
    ELSE LET r  == accumulateTimes(h, h[self].children[k])
             h2 == [r.heap EXCEPT ![self].hoursEstimate = @ + r.e,
                                  ![self].hoursSpent = @ + r.s]
         IN accumulateLoop(h2, self, k + 1)

accumulateTimesShallow(h, self) ==
    [heap |-> h, e |-> h[self].hoursEstimate, s |-> h[self].hoursSpent]

\* Workitem.accumulateTimes: the heap after the call and the pair returned
accumulateTimes(h, self) ==
    IF h[self].type = "issue"
    THEN [heap |-> h, e |-> h[self].hoursEstimate, s |-> h[self].hoursSpent]
    ELSE IF h[self].type = "epic"
    THEN accumulateLoop(h, self, 1)
    ELSE [heap |-> h, e |-> h[self].hoursEstimate, s |-> h[self].hoursSpent]

RECURSIVE Descendants(_, _)
\* the references reachable from n through children links, n included
Descendants(h, n) ==
    {n} \cup UNION {Descendants(h, h[n].children[k]) : k \in DOMAIN h[n].children}

----------------------------------------------------------------------------
(* src/Issue.py: time entries and shares *)

\* Issue.addTimeSpentByUser: the Issue after the call
addTimeSpentByUser(o, time, user, date) ==
    LET e == [Zeit |-> time, Datum |-> date] IN
    IF user \in DOMAIN o.userTimeMap.entries
    THEN [o EXCEPT !.userTimeMap.entries[user] = Append(@, e)]
    ELSE [o EXCEPT !.userTimeMap =
             [order   |-> Append(@.order, user),
              entries |-> [u \in DOMAIN @.entries \cup {user} |->
                             IF u = user THEN <<e>> ELSE @.entries[u]]]]

\* Issue.addLabel: the Issue after the call
addLabel(o, label) == [o EXCEPT !.labels = Append(@, label)]

\* Issue.hasLabel
hasLabel(o, label) == label \in Range(o.labels)

getUserTotalTimeFirst(o, user) ==
    IF user \in DOMAIN o.userTimeMap.entries
    THEN o.userTimeMap.entries[user][1].Zeit
    ELSE 0

\* Issue.getUserTotalTime
getUserTotalTime(o, user) ==
    IF user \in DOMAIN o.userTimeMap.entries
    THEN SumSeq([k \in DOMAIN o.userTimeMap.entries[user] |->
                    o.userTimeMap.entries[user][k].Zeit])
    ELSE 0

NoShares == [u \in {} |-> <<0, 1>>]

\* Issue.getUserPercentagesByTime: the Issue after the call (hoursSpent is
\* overwritten by the sum of the logged times) and the mapping returned, each
\* share the quotient <<user's seconds, all seconds>>.  0.001 h is 3.6 s.  A
\* zero sum makes the division raise, and the except clause returns {}.
getUserPercentagesByTime(o) ==
    IF o.hoursSpent * 1000 < 3600 /\ Len(o.userTimeMap.order) = 0
    THEN [obj |-> o, ret |-> NoShares]
    ELSE LET present   == DOMAIN o.userTimeMap.entries
             userTimes == [u \in present |-> getUserTotalTime(o, u)]
             total     == SumOver(present, userTimes)
             o2        == [o EXCEPT !.hoursSpent = total]
         IN IF present # {} /\ total = 0
            THEN [obj |-> o2, ret |-> NoShares]
            ELSE [obj |-> o2, ret |-> [u \in present |-> <<userTimes[u], total>>]]

----------------------------------------------------------------------------
(* Specification SpecTree: objects as the builder makes them, then any     *)
(* sequence of addChild and accumulateTimes calls.                         *)

TreeEpics  == {1, 2}
TreeIssues == {3, 4}
TreeNodes  == TreeEpics \cup TreeIssues

\* ids an Issue may carry (the epics carry their own reference as id);
\* issue 4 may have its own id, that of epic 2 or of issue 3, or none, and
\* both issues may have none
IssueIdChoices ==
    {[n \in TreeIssues |-> IF n = 3 THEN 3 ELSE i] : i \in {2, 3, 4, None}}
        \cup {[n \in TreeIssues |-> None]}

\* source-given seconds of an issue: (timeEstimate, totalTimeSpent)
SourceTimeChoices ==
    {[n \in TreeIssues |-> IF n = 3 THEN <<7200, 5400>> ELSE t] :
        t \in {<<0, 0>>, <<3600, 1800>>}}

MaxAccumulateCalls == 2

\* an Issue as timetracker.accumulateEpicTree leaves it before attaching it
BuiltIssue(id, est, spent) ==
    [Issue(id) EXCEPT !.hoursEstimate = est, !.hoursSpent = spent]

InitTree ==
    /\ \E ids \in IssueIdChoices, tm \in SourceTimeChoices :
          /\ items = [n \in TreeNodes |->
                       IF n \in TreeEpics THEN Epic(n)
                       ELSE BuiltIssue(ids[n], tm[n][1], tm[n][2])]
          /\ remote = [n \in TreeIssues |->
                        [timeEstimate |-> tm[n][1], totalTimeSpent |-> tm[n][2]]]
    /\ epic_tree = None
    /\ csv_rows = <<>>
    /\ users = <<>>
    /\ labels = <<>>
    /\ tt_users = <<>>
    /\ tt_labels = <<>>
    /\ issues = <<>>
    /\ result = NoResult
    /\ accCalls = [n \in TreeNodes |-> 0]
    /\ threads = <<>>

AppUnchanged == UNCHANGED <<epic_tree, csv_rows, users, labels, tt_users,
                            tt_labels, remote, issues>>

\* self.addChild(item).  As in the program, the tree is built before it is
\* accumulated, and callers do not introduce cycles.
AddChild(self, item) ==
    /\ \A n \in TreeNodes : accCalls[n] = 0
    /\ self \notin Descendants(items, item)
    /\ LET r == addChild(items, self, item) IN
          /\ items' = r.heap
          /\ result' = [op |-> "addChild", self |-> self, item |-> item,
                        ret |-> r.ret, before |-> items[self].children,
                        parentBefore |-> items[item].parent]
    /\ UNCHANGED <<accCalls, threads>>
    /\ AppUnchanged

\* self.accumulateTimes()
AccumulateTimes(self) ==
    /\ SumOver(TreeNodes, accCalls) < MaxAccumulateCalls
    /\ LET r == accumulateTimes(items, self) IN
          /\ items' = r.heap
          /\ result' = [op |-> "accumulateTimes", self |-> self,
                        ret |-> <<r.e, r.s>>]
    /\ accCalls' = [accCalls EXCEPT ![self] = @ + 1]
    /\ UNCHANGED threads
    /\ AppUnchanged

NextTree ==
    \/ \E self \in TreeEpics, item \in TreeNodes : AddChild(self, item)
    \/ \E self \in TreeNodes : AccumulateTimes(self)

SpecTree == InitTree /\ [][NextTree]_vars

\* the hoursSpent / hoursEstimate of the children of n, in order
ChildrenSpent(h, n) ==
    [k \in DOMAIN h[n].children |-> h[h[n].children[k]].hoursSpent]
ChildrenEstimate(h, n) ==
    [k \in DOMAIN h[n].children |-> h[h[n].children[k]].hoursEstimate]

\* below r every object is in the children of exactly one object, its parent
IsTreeUnder(h, r) ==
    \A n \in Descendants(h, r) \ {r} :
        /\ Cardinality({p \in DOMAIN h : n \in Range(h[p].children)}) = 1
        /\ n \in Range(h[h[n].parent].children)

\* accumulateTimes has been called k times in all, each time on r
AccumulatedOnly(r, k) ==
    /\ accCalls[r] = k
    /\ SumOver(TreeNodes, accCalls) = k

\* C1: after one accumulateTimes call on the root of a freshly built tree,
\* every Epic's hoursSpent is the sum of its immediate children's hoursSpent,
\* down to the leaves, and every Issue still has the hoursSpent of its source
\* record.
C1_AccumulateOnceSumsChildren ==
    \A r \in TreeNodes :
        (AccumulatedOnly(r, 1) /\ IsTreeUnder(items, r)) =>
            \A n \in Descendants(items, r) :
                /\ items[n].type = "epic" =>
                      items[n].hoursSpent = SumSeq(ChildrenSpent(items, n))
                /\ items[n].type = "issue" =>
                      items[n].hoursSpent = remote[n].totalTimeSpent

\* a root epic whose only hours come through a sub-epic has been accumulated once
C1_Witness ==
    /\ AccumulatedOnly(1, 1) /\ IsTreeUnder(items, 1)
    /\ items[1].children = <<2>>
    /\ Len(items[2].children) = 2
    /\ items[1].hoursSpent = 7200

\* C2 (as claimed): after two or more accumulateTimes calls on the same tree,
\* every Epic's hoursEstimate and hoursSpent are still the sums of its
\* children's.
C2_RepeatedAccumulateKeepsSums ==
    \A r \in TreeNodes : \A k \in 2..MaxAccumulateCalls :
        (AccumulatedOnly(r, k) /\ IsTreeUnder(items, r)) =>
            \A n \in Descendants(items, r) :
                items[n].type = "epic" =>
                    /\ items[n].hoursSpent = SumSeq(ChildrenSpent(items, n))
                    /\ items[n].hoursEstimate = SumSeq(ChildrenEstimate(items, n))

\* the child's id is among the ids of the children the node had before the call
IdPresentBefore ==
    \E k \in DOMAIN result.before :
        items[result.before[k]].id = items[result.item].id

\* C3: addChild of a child whose id is already among the node's children
\* returns false and leaves the children (and the child's parent) as they
\* were; of a child whose id is not, appends it, sets its parent to the node
\* and returns true.
C3_AddChildIdempotent ==
    result.op = "addChild" =>
        IF IdPresentBefore
        THEN /\ result.ret = FALSE
             /\ items[result.self].children = result.before
             /\ items[result.item].parent = result.parentBefore
        ELSE /\ result.ret = TRUE
             /\ items[result.self].children = Append(result.before, result.item)
             /\ items[result.item].parent = result.self

\* a second object with the id of a present child has been rejected
C3_Witness ==
    /\ result.op = "addChild"
    /\ result.ret = FALSE
    /\ result.item \notin Range(result.before)
    /\ Len(items[result.self].children) = Len(result.before)

\* C23 (as claimed): a node's parent is set at most once: an addChild call
\* on a node that already has a parent leaves that parent as it was, and
\* no node is among the children of more than one node.
C23_ParentSetOnceSingleParent ==
    /\ (result.op = "addChild" /\ result.parentBefore # None) =>
           items[result.item].parent = result.parentBefore
    /\ \A n \in TreeNodes :
           Cardinality({p \in TreeNodes : n \in Range(items[p].children)}) <= 1

\* C24 (as claimed): two work items are equal exactly when they have the
\* same id and that id is not none; so addChild refuses a child exactly
\* when it is already among the children or one of them has its id, and
\* attaches an id-less child next to another id-less one.
C24_EqualIffSameIdIdlessNeverEqual ==
    result.op = "addChild" =>
        LET sameId == {k \in DOMAIN result.before :
                          /\ items[result.item].id # None
                          /\ items[result.before[k]].id = items[result.item].id}
        IN  result.ret = (result.item \notin Range(result.before) /\ sameId = {})

----------------------------------------------------------------------------
(* Specification SpecIssue: one Issue, its time entries recorded one by    *)
(* one, and its shares computed.                                           *)

IssueUsers == {"Nivek", "Buerek"}

\* seconds of a time entry: 0 h, 0.5 h, 2.5 h
EntrySeconds == {0, 1800, 9000}

MaxEntries == 3

\* an ISO-8601 instant with a Z suffix: a date is its format and wall clock
ZDate(day, tod) == [fmt |-> "Z", day |-> day, tod |-> tod, off |-> 0]

TheIssue == 1

EntryCount(o) ==
    SumOver(DOMAIN o.userTimeMap.entries,
            [u \in DOMAIN o.userTimeMap.entries |-> Len(o.userTimeMap.entries[u])])

InitIssue ==
    /\ \E spent \in {0, 5400} :
          /\ items = [n \in {TheIssue} |-> BuiltIssue(1, 7200, spent)]
          /\ remote = [n \in {TheIssue} |->
                        [timeEstimate |-> 7200, totalTimeSpent |-> spent]]
    /\ epic_tree = None
    /\ csv_rows = <<>>
    /\ users = <<>>
    /\ labels = <<>>
    /\ tt_users = <<>>
    /\ tt_labels = <<>>
    /\ issues = <<>>
    /\ result = NoResult
    /\ accCalls = [n \in {TheIssue} |-> 0]
    /\ threads = <<>>

\* i.addTimeSpentByUser(time, user, date)
AddTimeSpentByUser(time, user, date) ==
    /\ EntryCount(items[TheIssue]) < MaxEntries
    /\ items' = [items EXCEPT ![TheIssue] = addTimeSpentByUser(@, time, user, date)]
    /\ result' = [op |-> "addTimeSpentByUser"]
    /\ UNCHANGED <<accCalls, threads>>
    /\ AppUnchanged

\* i.getUserPercentagesByTime()
GetUserPercentagesByTime ==
    /\ LET r == getUserPercentagesByTime(items[TheIssue]) IN
          /\ items' = [items EXCEPT ![TheIssue] = r.obj]
          /\ result' = [op |-> "getUserPercentagesByTime", ret |-> r.ret]
    /\ UNCHANGED <<accCalls, threads>>
    /\ AppUnchanged

NextIssue ==
    \/ \E time \in EntrySeconds, user \in IssueUsers :
          AddTimeSpentByUser(time, user, ZDate(1, 0))
    \/ GetUserPercentagesByTime

SpecIssue == InitIssue /\ [][NextIssue]_vars

\* the seconds the entries of user u add up to, and those of all users
LoggedBy(o, u) ==
    SumSeq([k \in DOMAIN o.userTimeMap.entries[u] |->
               o.userTimeMap.entries[u][k].Zeit])
LoggedTotal(o) ==
    SumOver(DOMAIN o.userTimeMap.entries,
            [u \in DOMAIN o.userTimeMap.entries |-> LoggedBy(o, u)])

\* the quotient q equals a / b
QuotientIs(q, a, b) == q[2] # 0 /\ b # 0 /\ q[1] * b = a * q[2]

\* C4: for an Issue whose time entries have a positive total,
\* getUserPercentagesByTime returns, for exactly the users of the time map,
\* the user's total divided by the total of all users.
C4_SharesAreUserTotalOverTotal ==
    (result.op = "getUserPercentagesByTime" /\ LoggedTotal(items[TheIssue]) > 0) =>
        /\ DOMAIN result.ret = DOMAIN items[TheIssue].userTimeMap.entries
        /\ \A u \in DOMAIN result.ret :
              QuotientIs(result.ret[u], LoggedBy(items[TheIssue], u),
                         LoggedTotal(items[TheIssue]))

\* entries (Nivek, 0.5), (Nivek, 2.5), (Buerek, 0.5) gave Nivek 6/7, Buerek 1/7
C4_Witness ==
    /\ result.op = "getUserPercentagesByTime"
    /\ items[TheIssue].userTimeMap.order = <<"Nivek", "Buerek">>
    /\ items[TheIssue].userTimeMap.entries["Nivek"] =
          <<[Zeit |-> 1800, Datum |-> ZDate(1, 0)],
            [Zeit |-> 9000, Datum |-> ZDate(1, 0)]>>
    /\ items[TheIssue].userTimeMap.entries["Buerek"] =
          <<[Zeit |-> 1800, Datum |-> ZDate(1, 0)]>>
    /\ QuotientIs(result.ret["Nivek"], 6, 7)
    /\ QuotientIs(result.ret["Buerek"], 1, 7)

\* C5 (as claimed): getUserPercentagesByTime returns the empty mapping when
\* the Issue has no time entries, and a non-empty mapping over its users when
\* it has entries whose hours sum to zero.
C5_EmptyOnlyWithoutEntries ==
    result.op = "getUserPercentagesByTime" =>
        /\ items[TheIssue].userTimeMap.order = <<>> => DOMAIN result.ret = {}
        /\ (items[TheIssue].userTimeMap.order # <<>>
              /\ LoggedTotal(items[TheIssue]) = 0) =>
                 DOMAIN result.ret = DOMAIN items[TheIssue].userTimeMap.entries

----------------------------------------------------------------------------
(* Dates.  An ISO-8601 string is modelled by its format and the wall clock *)
(* it spells: a day number and a time of day in ticks (TicksPerDay ticks a *)
(* day).  "Z" ends with Z, "offset" carries a numeric UTC offset, "naive"  *)
(* carries none, "bad" does not parse, "none" is Python's None.            *)

TicksPerDay == 4

\* the UTC offset of the server's local zone, in ticks
LocalOffset == 1

OffsetDate(day, tod, off) == [fmt |-> "offset", day |-> day, tod |-> tod, off |-> off]
NaiveDate(day, tod)       == [fmt |-> "naive", day |-> day, tod |-> tod, off |-> 0]
BadDate                   == [fmt |-> "bad"]

\* the parsing idiom of app.py raises on this string (or on None)
ParseRaises(d) == d.fmt \notin {"Z", "offset", "naive"}

\* the parsing idiom of app.py: the aware datetime of a string that parses;
\* a string without zone is taken in the server's local zone
ParseDate(d) ==
    IF d.fmt = "Z" THEN [day |-> d.day, tod |-> d.tod, off |-> 0]
    ELSE IF d.fmt = "offset" THEN [day |-> d.day, tod |-> d.tod, off |-> d.off]
    ELSE [day |-> d.day, tod |-> d.tod, off |-> LocalOffset]

\* the instant of an aware datetime, in ticks since the epoch (what <=
\* between aware datetimes compares)
Instant(dt) == dt.day * TicksPerDay + dt.tod - dt.off

\* a wall clock of the server's local zone
LocalTime(day, tod) == [day |-> day, tod |-> tod, off |-> LocalOffset]

----------------------------------------------------------------------------
(* Rounding and sorting *)

\* round(a / b) to the nearest integer, for a >= 0 and b > 0
RoundDiv(a, b) == (2 * a + b) \div (2 * b)

\* round(hours, 2) of an hour figure kept in seconds: centihours
Round2(sec) == RoundDiv(sec, 36)

\* round(a / b, 4) of a share: units of 0.0001
Round4(a, b) == RoundDiv(a * 10000, b)

\* the collating order of the names that occur (strings sort by code point)
Collation ==
    <<"Buerek", "Entwurf", "Implementation & Test", "Nivek",
      "Projektmanagement", "Requirements Engineering", "Sonstiges">>

\* sorted(list(set(names)))
SortedSet(names) ==
    LET In(x) == x \in Range(names) IN SelectSeq(Collation, In)

----------------------------------------------------------------------------
(* src/timetracker.py: the tree builder.  A build state st holds the heap  *)
(* the new objects are allocated in and the module's users / labels lists. *)

\* the empty string, as a configuration value
Empty == -1

\* a configuration value that passes for present although it is not
NeverMissing(x) == FALSE

\* `not x` of a configuration value: None or the empty string
Missing(x) == x = None \/ x = Empty

\* timetracker.users = [] / timetracker.labels = [] before a build
ResetList(list) == <<>>

\* os.getenv: the process environment carries no configuration
Getenv == [TOKEN |-> None, GROUP_FULL_PATH |-> None, EPIC_ROOT_ID |-> None]

\* `x in list` then append
AppendNew(list, x) == IF x \in Range(list) THEN list ELSE Append(list, x)

RECURSIVE ReplayTimelogs(_, _, _, _)
\* the loop over issue['timelogs']['nodes'], from the k-th log on
ReplayTimelogs(o, userList, logs, k) ==
    IF k > Len(logs) THEN [obj |-> o, users |-> userList]
    ELSE ReplayTimelogs(
            addTimeSpentByUser(o, logs[k].timeSpent, logs[k].user, logs[k].spentAt),
            AppendNew(userList, logs[k].user), logs, k + 1)

RECURSIVE ReplayLabels(_, _, _, _)
\* the loop over issue['labels']['nodes'], from the k-th label on
ReplayLabels(o, labelList, labs, k) ==
    IF k > Len(labs) THEN [obj |-> o, labels |-> labelList]
    ELSE ReplayLabels(addLabel(o, labs[k]), AppendNew(labelList, labs[k]),
                      labs, k + 1)

RECURSIVE BuildIssues(_, _, _, _)
\* the loop over epicData['issues']['nodes'], from the k-th issue on
BuildIssues(st, epic, recs, k) ==
    IF k > Len(recs) THEN st
    ELSE LET rec  == recs[k]
             i0   == [BuiltIssue(rec.iid, rec.timeEstimate, rec.totalTimeSpent)
                         EXCEPT !.createdAt = rec.createdAt]
             t    == ReplayTimelogs(i0, st.users, rec.timelogs, 1)
             l    == ReplayLabels(t.obj, st.labels, rec.labels, 1)
             heap == Append(st.heap, l.obj)
             a    == addChild(heap, epic, Len(heap))
         IN BuildIssues([heap |-> a.heap, users |-> t.users, labels |-> l.labels],
                        epic, recs, k + 1)

RECURSIVE accumulateEpicTree(_, _, _, _, _)
RECURSIVE BuildChildren(_, _, _, _, _, _, _)

\* the loop over epicData['children']['nodes'], from the k-th child on
BuildChildren(st, rem, cfg, epic, childIds, k, failAt) ==
    IF k > Len(childIds) THEN [ok |-> TRUE, st |-> st, ref |-> epic]
    ELSE LET r == accumulateEpicTree(st, rem, cfg, childIds[k], failAt) IN
         IF ~r.ok THEN r
         ELSE BuildChildren([r.st EXCEPT !.heap = addChild(r.st.heap, epic, r.ref).heap],
                            rem, cfg, epic, childIds, k + 1, failAt)

\* timetracker.accumulateEpicTree.  cfg is (group_path, token); the fetch of
\* epic failAt raises (as does that of an epic the remote does not know).
\* ok is FALSE when the call raises; st is the build state it leaves.
accumulateEpicTree(st, rem, cfg, epic_iid, failAt) ==
    LET group_path == IF cfg.group_path = None THEN Getenv.GROUP_FULL_PATH
                      ELSE cfg.group_path
        iid        == IF epic_iid = None THEN Getenv.EPIC_ROOT_ID ELSE epic_iid
        token      == IF cfg.token = None THEN Getenv.TOKEN ELSE cfg.token
    IN IF Missing(group_path) \/ Missing(iid) \/ Missing(token)
       THEN [ok |-> FALSE, st |-> st, ref |-> None, fetched |-> FALSE]
       ELSE IF iid = failAt \/ iid \notin DOMAIN rem
       THEN [ok |-> FALSE, st |-> st, ref |-> None, fetched |-> TRUE]
       ELSE LET heap == Append(st.heap, Epic(rem[iid].iid))
                epic == Len(heap)
                st2  == BuildIssues([st EXCEPT !.heap = heap], epic,
                                    rem[iid].issues, 1)
                r    == BuildChildren(st2, rem, cfg, epic, rem[iid].children, 1, failAt)
            IN [ok |-> r.ok, st |-> r.st, ref |-> IF r.ok THEN epic ELSE None,
                fetched |-> TRUE]

----------------------------------------------------------------------------
(* src/app.py: load_data *)

\* "Zeitaufwand (h)" of a row of load_data: round(e.hoursSpent, 2)
RowHours(o) == Round2(o.hoursSpent)

\* a default that takes an Issue without state for finished
RowStateClosed(o) == "closed"

\* getattr(e, 'state', 'opened'): no Issue is ever given a state attribute
RowState(o) == "opened"

\* the row load_data.build_rows makes of object e (shares is the value of
\* e.getUserPercentagesByTime() for an Issue)
LoadRow(h, e, shares, userList, labelList) ==
    [Typ |-> h[e].type,
     IID |-> h[e].id,
     ParentIID |-> IF h[e].parent = None THEN None ELSE h[h[e].parent].id,
     Zeitaufwand |-> RowHours(h[e]),
     geschZeitaufwand |-> Round2(h[e].hoursEstimate),
     user |-> [u \in Range(userList) |->
                 IF h[e].type = "issue" /\ u \in DOMAIN shares
                 THEN Round4(shares[u][1], shares[u][2]) ELSE 0],
     label |-> [l \in Range(labelList) |->
                 IF h[e].type = "issue" THEN hasLabel(h[e], l) ELSE FALSE],
     createdAt |-> IF h[e].type = "issue" THEN h[e].createdAt ELSE NoDate,
     state |-> IF h[e].type = "issue" THEN RowState(h[e]) ELSE "none"]

RECURSIVE build_rows(_, _, _, _)
RECURSIVE build_rows_children(_, _, _, _, _)

\* the loop of build_rows over e.children, from the k-th child on
build_rows_children(st, e, k, userList, labelList) ==
    IF k > Len(st.heap[e].children) THEN st
    ELSE build_rows_children(
            build_rows(st, st.heap[e].children[k], userList, labelList),
            e, k + 1, userList, labelList)

\* load_data.build_rows on the state st = (heap, rows): the row is made with
\* the hoursSpent the object has on entry, then getUserPercentagesByTime
\* overwrites the Issue's hoursSpent
build_rows(st, e, userList, labelList) ==
    LET p    == IF st.heap[e].type = "issue"
                THEN getUserPercentagesByTime(st.heap[e])
                ELSE [obj |-> st.heap[e], ret |-> NoShares]
        row  == LoadRow(st.heap, e, p.ret, userList, labelList)
        st2  == [heap |-> [st.heap EXCEPT ![e] = p.obj],
                 rows |-> Append(st.rows, row)]
    IN build_rows_children(st2, e, 1, userList, labelList)

----------------------------------------------------------------------------
(* src/app.py: the date filters.  A window is its first instant and, when  *)
(* it is bounded above, its last one.                                      *)

InWindow(w, t) == w.lo <= t /\ (w.hasHi => t <= w.hi)

\* filter_data_by_date: cutoff_date = now - timedelta(days), no upper end
DaysWindow(now, days) ==
    [lo |-> Instant(now) - days * TicksPerDay, hasHi |-> FALSE, hi |-> 0]

\* filter_data_by_date_range: 00:00:00 of the start day to 23:59:59.999999
\* of the end day, local time
RangeWindow(startDay, endDay) ==
    [lo |-> Instant(LocalTime(startDay, 0)), hasHi |-> TRUE,
     hi |-> Instant(LocalTime(endDay, TicksPerDay - 1))]

RECURSIVE FilterEntries(_, _, _, _)
\* the loop over one user's time_entries inside the try block, from the k-th
\* entry on: whether parsing raised, and user_total
FilterEntries(entries, k, w, user_total) ==
    IF k > Len(entries) THEN [raised |-> FALSE, total |-> user_total]
    ELSE IF ParseRaises(entries[k].Datum) THEN [raised |-> TRUE, total |-> user_total]
    ELSE FilterEntries(entries, k + 1, w,
            IF InWindow(w, Instant(ParseDate(entries[k].Datum)))
            THEN user_total + entries[k].Zeit ELSE user_total)

RECURSIVE FilterUsers(_, _, _, _, _)
\* the loop over e.userTimeMap.items() inside the try block, from the k-th
\* user on; acc holds filtered_user_times and filtered_hours_spent
FilterUsers(o, k, w, times, spent) ==
    IF k > Len(o.userTimeMap.order)
    THEN [raised |-> FALSE, times |-> times, spent |-> spent]
    ELSE LET u == o.userTimeMap.order[k]
             r == FilterEntries(o.userTimeMap.entries[u], 1, w, 0)
         IN IF r.raised THEN [raised |-> TRUE, times |-> times, spent |-> spent]
            ELSE IF r.total > 0
            THEN FilterUsers(o, k + 1, w,
                    [x \in DOMAIN times \cup {u} |->
                        IF x = u THEN r.total ELSE times[x]],
                    spent + r.total)
            ELSE FilterUsers(o, k + 1, w, times, spent)

NoTimes == [u \in {} |-> 0]

\* the try / except of build_filtered_rows for an Issue: filtered_user_times
\* and filtered_hours_spent.  When parsing raised, the except clause sets every
\* user's time to all of the user's entries and adds it onto the hours
\* gathered so far.
FilteredTimes(o, w) ==
    LET t == FilterUsers(o, 1, w, NoTimes, 0) IN
    IF ~t.raised THEN [times |-> t.times, spent |-> t.spent]
    ELSE LET all == DOMAIN o.userTimeMap.entries
             tot == [u \in all |-> getUserTotalTime(o, u)]
         IN [times |-> tot, spent |-> t.spent + SumOver(all, tot)]

\* the row build_filtered_rows makes of Issue e
FilteredIssueRow(h, e, w, userList, labelList) ==
    LET f == FilteredTimes(h[e], w) IN
    [Typ |-> h[e].type,
     IID |-> h[e].id,
     ParentIID |-> IF h[e].parent = None THEN None ELSE h[h[e].parent].id,
     Zeitaufwand |-> Round2(f.spent),
     geschZeitaufwand |-> Round2(h[e].hoursEstimate),
     user |-> [u \in Range(userList) |->
                 IF f.spent > 0 /\ u \in DOMAIN f.times
                 THEN Round4(f.times[u], f.spent) ELSE 0],
     label |-> [l \in Range(labelList) |-> hasLabel(h[e], l)],
     createdAt |-> h[e].createdAt,
     state |-> RowState(h[e])]

\* the row build_filtered_rows first makes of Epic e
FilteredEpicRow(h, e, userList, labelList) ==
    [Typ |-> h[e].type,
     IID |-> h[e].id,
     ParentIID |-> IF h[e].parent = None THEN None ELSE h[h[e].parent].id,
     Zeitaufwand |-> 0,
     geschZeitaufwand |-> Round2(h[e].hoursEstimate),
     user |-> [u \in Range(userList) |-> 0],
     label |-> [l \in Range(labelList) |-> FALSE],
     createdAt |-> NoDate,
     state |-> "none"]

RowHoursSeq(rs) == [k \in DOMAIN rs |-> rs[k].Zeitaufwand]

ChildRowsIssuesOnly(rows, id) ==
    LET IsChild(r) == r.ParentIID = id /\ r.Typ = "issue" IN SelectSeq(rows, IsChild)

\* child_rows = [r for r in filtered_rows if r.get("Parent IID") == e.id]
ChildRows(rows, id) ==
    LET IsChild(r) == r.ParentIID = id IN SelectSeq(rows, IsChild)

\* the epic's row once its children's rows are in filtered_rows: the hours are
\* the rounded sum of the child rows' hours (centihours, hence * 36 seconds),
\* the shares their hours-weighted average
SummedEpicRow(row, rows, id) ==
    LET child_rows == ChildRows(rows, id)
        total      == SumSeq(RowHoursSeq(child_rows))
    IN [row EXCEPT
          !.Zeitaufwand = Round2(total * 36),
          !.user = IF total > 0
                   THEN [u \in DOMAIN row.user |->
                           RoundDiv(SumSeq([k \in DOMAIN child_rows |->
                                       child_rows[k].Zeitaufwand * child_rows[k].user[u]]),
                                    total)]
                   ELSE @]

RECURSIVE build_filtered_rows(_, _, _, _, _, _)
RECURSIVE build_filtered_children(_, _, _, _, _, _, _)

\* the loop of build_filtered_rows over e.children, from the k-th child on
build_filtered_children(rows, h, e, k, w, userList, labelList) ==
    IF k > Len(h[e].children) THEN rows
    ELSE build_filtered_children(
            build_filtered_rows(rows, h, h[e].children[k], w, userList, labelList),
            h, e, k + 1, w, userList, labelList)

\* build_filtered_rows of filter_data_by_date and filter_data_by_date_range
\* (they differ in the window only): filtered_rows after the call on e
build_filtered_rows(rows, h, e, w, userList, labelList) ==
    IF h[e].type = "issue"
    THEN Append(rows, FilteredIssueRow(h, e, w, userList, labelList))
    ELSE LET at    == Len(rows) + 1
             rows2 == build_filtered_children(
                         Append(rows, FilteredEpicRow(h, e, userList, labelList)),
                         h, e, 1, w, userList, labelList)
         IN [rows2 EXCEPT ![at] = SummedEpicRow(@, rows2, h[e].id)]

\* filter_data_by_date / filter_data_by_date_range on the cached tree
FilteredData(h, root, w, userList, labelList) ==
    IF root = None THEN <<>>
    ELSE build_filtered_rows(<<>>, h, root, w, userList, labelList)

----------------------------------------------------------------------------
(* Specification SpecApp: the remote holds a tree of three epics and two   *)
(* issues; the cache is loaded and refreshed, and the date filters run on  *)
(* the cached tree.                                                        *)

EpicIds == {1, 2, 3}

\* the child epic ids of each epic, and the epics issue A and issue B are in
Layouts ==
    {[children |-> <<<<2>>, <<3>>, <<>>>>, a |-> 3, b |-> 2],
     [children |-> <<<<2>>, <<3>>, <<>>>>, a |-> 1, b |-> 3],
     [children |-> <<<<2, 3>>, <<>>, <<>>>>, a |-> 3, b |-> 3]}

SpentRecent == ZDate(9, 3)
SpentEdge   == NaiveDate(9, 2)
SpentOld    == ZDate(2, 0)

\* timelog records (seconds, date, user name) issue A draws from
TimelogsA ==
    {[timeSpent |-> 3600, spentAt |-> SpentRecent, user |-> "Nivek"],
     [timeSpent |-> 1800, spentAt |-> SpentOld, user |-> "Nivek"],
     [timeSpent |-> 14, spentAt |-> SpentEdge, user |-> "Buerek"],
     [timeSpent |-> 7200, spentAt |-> BadDate, user |-> "Buerek"]}

MaxLogs == 2

\* the timelog lists issue B draws from
TimelogListsB ==
    {<<>>,
     <<[timeSpent |-> 14, spentAt |-> SpentRecent, user |-> "Buerek"]>>,
     <<[timeSpent |-> 3600, spentAt |-> SpentOld, user |-> "Buerek"],
       [timeSpent |-> 5400, spentAt |-> SpentRecent, user |-> "Nivek"]>>}

IssueA(logs) ==
    [iid |-> 11, timeEstimate |-> 7200, totalTimeSpent |-> 9000,
     createdAt |-> ZDate(8, 2), labels |-> <<"Entwurf">>, timelogs |-> logs]
IssueB(logs) ==
    [iid |-> 12, timeEstimate |-> 0, totalTimeSpent |-> 3600,
     createdAt |-> NaiveDate(9, 3),
     labels |-> <<"Projektmanagement", "Entwurf">>, timelogs |-> logs]

\* what the remote answers for each epic id
RemoteOf(lay, la, lb) ==
    [e \in EpicIds |->
        [iid |-> e, children |-> lay.children[e],
         issues |-> (IF lay.a = e THEN <<IssueA(la)>> ELSE <<>>) \o
                    (IF lay.b = e THEN <<IssueB(lb)>> ELSE <<>>)]]

RemoteChoices ==
    {RemoteOf(lay, la, lb) :
        lay \in Layouts, la \in SeqsUpTo(TimelogsA, MaxLogs), lb \in TimelogListsB}

\* the (token, group_path, epic_id) a request carries; 1 is the configured
\* group, its root epic and a valid token
ConfigChoices ==
    {[token |-> 1, group_path |-> 1, epic_id |-> 1],
     [token |-> None, group_path |-> 1, epic_id |-> 1],
     [token |-> 1, group_path |-> None, epic_id |-> 1],
     [token |-> 1, group_path |-> 1, epic_id |-> None],
     [token |-> 1, group_path |-> Empty, epic_id |-> 1]}

\* the arguments of the loads that precede a date filter
AppConfigChoices ==
    {[token |-> 1, group_path |-> 1, epic_id |-> 1],
     [token |-> None, group_path |-> 1, epic_id |-> 1]}

\* the server's clock when a request is served
NowChoices == {LocalTime(10, 2)}

MaxDays == 2

\* start and end day of an explicit range
RangeChoices == {<<9, 9>>, <<2, 9>>, <<9, 10>>}

InitApp ==
    /\ remote \in RemoteChoices
    /\ items = <<>>
    /\ epic_tree = None
    /\ csv_rows = <<>>
    /\ users = <<>>
    /\ labels = <<>>
    /\ tt_users = <<>>
    /\ tt_labels = <<>>
    /\ issues = <<>>
    /\ result = NoResult
    /\ accCalls = <<>>
    /\ threads = <<>>

\* load_data(force_refresh, token, group_path, epic_id); the fetch of epic
\* failAt fails.  The new tree is allocated in a heap of its own: once
\* epic_tree is reassigned the old objects are unreachable.
LoadData(force_refresh, token, group_path, epic_id, failAt) ==
    /\ UNCHANGED <<remote, issues, accCalls, threads>>
    /\ IF ~(force_refresh \/ epic_tree = None)
       THEN /\ result' = [op |-> "load_data", loading |-> FALSE,
                          args |-> <<token, group_path, epic_id>>,
                          prev |-> <<users, labels>>,
                          raised |-> FALSE, fetched |-> FALSE]
            /\ UNCHANGED <<items, epic_tree, csv_rows, users, labels,
                           tt_users, tt_labels>>
       ELSE LET GROUP_FULL_PATH == IF group_path # None THEN group_path
                                   ELSE Getenv.GROUP_FULL_PATH
                EPIC_IID == IF epic_id # None THEN epic_id ELSE Getenv.EPIC_ROOT_ID
                TOKEN    == IF token # None THEN token ELSE Getenv.TOKEN
            IN IF Missing(GROUP_FULL_PATH) \/ Missing(EPIC_IID) \/ Missing(TOKEN)
               THEN /\ csv_rows' = <<>>
                    /\ result' = [op |-> "load_data", loading |-> TRUE,
                                  args |-> <<token, group_path, epic_id>>,
                                  prev |-> <<users, labels>>,
                                  raised |-> TRUE, fetched |-> FALSE]
                    /\ UNCHANGED <<items, epic_tree, users, labels,
                                   tt_users, tt_labels>>
               ELSE LET b == accumulateEpicTree(
                                [heap |-> <<>>, users |-> ResetList(tt_users),
                                 labels |-> ResetList(tt_labels)],
                                remote,
                                [group_path |-> GROUP_FULL_PATH, token |-> TOKEN],
                                EPIC_IID, failAt)
                    IN IF ~b.ok
                       THEN /\ csv_rows' = <<>>
                            /\ tt_users' = b.st.users
                            /\ tt_labels' = b.st.labels
                            /\ result' = [op |-> "load_data", loading |-> TRUE,
                                          args |-> <<token, group_path, epic_id>>,
                                          prev |-> <<users, labels>>,
                                          raised |-> TRUE, fetched |-> b.fetched]
                            /\ UNCHANGED <<items, epic_tree, users, labels>>
                       ELSE LET acc == accumulateTimes(b.st.heap, b.ref)
                                us  == SortedSet(b.st.users)
                                ls  == SortedSet(b.st.labels)
                                br  == build_rows([heap |-> acc.heap, rows |-> <<>>],
                                                  b.ref, us, ls)
                            IN /\ items' = br.heap
                               /\ epic_tree' = b.ref
                               /\ csv_rows' = br.rows
                               /\ users' = us
                               /\ labels' = ls
                               /\ tt_users' = b.st.users
                               /\ tt_labels' = b.st.labels
                               /\ result' = [op |-> "load_data", loading |-> TRUE,
                                             args |-> <<token, group_path, epic_id>>,
                                             prev |-> <<users, labels>>,
                                             raised |-> FALSE, fetched |-> b.fetched]

\* filter_data_by_date(days), called at the instant now
FilterDataByDate(days, now) ==
    /\ result' = [op |-> "filter_data_by_date", window |-> DaysWindow(now, days),
                  ret |-> FilteredData(items, epic_tree, DaysWindow(now, days),
                                       users, labels)]
    /\ UNCHANGED <<items, epic_tree, csv_rows, users, labels, tt_users,
                   tt_labels, remote, issues, accCalls, threads>>

\* filter_data_by_date_range(start_date_str, end_date_str)
FilterDataByDateRange(startDay, endDay) ==
    /\ result' = [op |-> "filter_data_by_date_range",
                  window |-> RangeWindow(startDay, endDay),
                  ret |-> FilteredData(items, epic_tree,
                                       RangeWindow(startDay, endDay), users, labels)]
    /\ UNCHANGED <<items, epic_tree, csv_rows, users, labels, tt_users,
                   tt_labels, remote, issues, accCalls, threads>>

NextApp ==
    \/ \E force_refresh \in BOOLEAN, c \in AppConfigChoices,
          failAt \in {None} \cup EpicIds :
          LoadData(force_refresh, c.token, c.group_path, c.epic_id, failAt)
    \/ \E days \in 1..MaxDays, now \in NowChoices : FilterDataByDate(days, now)
    \/ \E r \in RangeChoices : FilterDataByDateRange(r[1], r[2])

SpecApp == InitApp /\ [][NextApp]_vars

RECURSIVE Preorder(_, _)
RECURSIVE PreorderFrom(_, _, _)
\* the objects of the tree under e in the order the row builders visit them
PreorderFrom(h, e, k) ==
    IF k > Len(h[e].children) THEN <<>>
    ELSE Preorder(h, h[e].children[k]) \o PreorderFrom(h, e, k + 1)
Preorder(h, e) == <<e>> \o PreorderFrom(h, e, 1)

\* the position of object c in the visiting order
RowIndex(order, c) == CHOOSE j \in DOMAIN order : order[j] = c

\* the last call was a date filter on a loaded tree
IsFilterResult ==
    /\ result.op \in {"filter_data_by_date", "filter_data_by_date_range"}
    /\ epic_tree # None

\* the time entries of Issue o whose date parses and lies in window w, as
\* (user, position) pairs, and the seconds they add up to
EntriesInWindow(o, w) ==
    {<<u, k>> \in UNION {{u2} \X DOMAIN o.userTimeMap.entries[u2] :
                            u2 \in DOMAIN o.userTimeMap.entries} :
        /\ ~ParseRaises(o.userTimeMap.entries[u][k].Datum)
        /\ InWindow(w, Instant(ParseDate(o.userTimeMap.entries[u][k].Datum)))}
WindowedSeconds(o, w) ==
    SumOver(EntriesInWindow(o, w),
            [p \in EntriesInWindow(o, w) |-> o.userTimeMap.entries[p[1]][p[2]].Zeit])

\* C6 (as claimed): under a date filter each issue row's spent hours are (to
\* the 2 decimals of a row) the sum of the hours of exactly those of its time
\* entries whose date lies in the window; an issue with no entry in the window
\* gets 0 hours and share 0 for every user.
C6_IssueRowsSumWindowEntries ==
    IsFilterResult =>
        LET order == Preorder(items, epic_tree) IN
        /\ Len(result.ret) = Len(order)
        /\ \A k \in DOMAIN order :
              items[order[k]].type = "issue" =>
                 /\ result.ret[k].Zeitaufwand =
                       Round2(WindowedSeconds(items[order[k]], result.window))
                 /\ EntriesInWindow(items[order[k]], result.window) = {} =>
                       /\ result.ret[k].Zeitaufwand = 0
                       /\ \A u \in DOMAIN result.ret[k].user :
                             result.ret[k].user[u] = 0

\* C7: under a date filter every epic row's spent hours are the sum of the
\* spent hours of the rows of its immediate children (issues and sub-epics),
\* at any depth.
C7_EpicRowsSumChildRows ==
    IsFilterResult =>
        LET order == Preorder(items, epic_tree) IN
        /\ Len(result.ret) = Len(order)
        /\ \A k \in DOMAIN order :
              items[order[k]].type = "epic" =>
                 result.ret[k].Zeitaufwand =
                    SumSeq([j \in DOMAIN items[order[k]].children |->
                              result.ret[RowIndex(order, items[order[k]].children[j])]
                                 .Zeitaufwand])

\* the root's windowed hours come through two levels of sub-epics and differ
\* from the root's lifetime hoursSpent
C7_Witness ==
    /\ IsFilterResult
    /\ \E i, j, k \in DOMAIN result.ret :
          /\ result.ret[i].Typ = "epic" /\ result.ret[j].Typ = "epic"
          /\ result.ret[k].Typ = "issue"
          /\ result.ret[j].ParentIID = result.ret[i].IID
          /\ result.ret[k].ParentIID = result.ret[j].IID
          /\ result.ret[k].Zeitaufwand > 0
    /\ result.ret[1].Zeitaufwand > 0
    /\ result.ret[1].Zeitaufwand # Round2(items[epic_tree].hoursSpent)

-----------------------------------------------------------------------------
(* src/app.py: the cumulative-flow aggregators, pure functions of the row  *)
(* list they are handed.  A day of the timeline is an aware datetime at    *)
(* 00:00:00; its label (strftime '%Y-%m-%d') is its day number.            *)

\* the lookback of calculate_cfd_stats when no row has a creation date
DefaultDays == 30

\* the creation-date check left out
CreatedAnyDay(created_date, day) == TRUE

\* created_date.date() <= day.date(): the calendar dates, each in its own zone
CreatedOnOrBefore(created_date, day) == created_date.day <= day.day

\* the hours test ahead of the closed test
ClassifyHoursFirst(state, time_spent) ==
    IF time_spent > 0 THEN "in_progress"
    ELSE IF state = "closed" THEN "done"
    ELSE "todo"

\* the if / elif / else on state and time_spent
Classify(state, time_spent) ==
    IF state = "closed" THEN "done"
    ELSE IF time_spent > 0 THEN "in_progress"
    ELSE "todo"

NoCounts == [todo |-> 0, in_progress |-> 0, done |-> 0]

RECURSIVE CountIssues(_, _, _, _)
\* the loop `for issue in issues` of one day, from the k-th row on
CountIssues(rows, k, day, c) ==
    IF k > Len(rows) THEN c
    ELSE LET issue    == rows[k]
             bucket   == Classify(issue.state, issue.Zeitaufwand)
         IN  IF issue.createdAt.fmt = "none" \/ ParseRaises(issue.createdAt)
             THEN CountIssues(rows, k + 1, day, c)
             ELSE IF CreatedOnOrBefore(ParseDate(issue.createdAt), day)
             THEN CountIssues(rows, k + 1, day, [c EXCEPT ![bucket] = @ + 1])
             ELSE CountIssues(rows, k + 1, day, c)

\* a total that leaves the done bucket out
DayStatusOpenOnly(c) ==
    [todo |-> c.todo, in_progress |-> c.in_progress, done |-> c.done,
     total |-> c.todo + c.in_progress]

\* the entry daily_status[day_label] gets
DayStatus(c) ==
    [todo |-> c.todo, in_progress |-> c.in_progress, done |-> c.done,
     total |-> c.todo + c.in_progress + c.done]

RECURSIVE DayLoop(_, _, _, _)
\* while day <= end_date: ...; day += timedelta(days=1)
DayLoop(rows, day, end_date, daily_status) ==
    IF Instant(day) <= Instant(end_date)
    THEN DayLoop(rows, [day EXCEPT !.day = @ + 1], end_date,
                 (day.day :> DayStatus(CountIssues(rows, 1, day, NoCounts)))
                    @@ daily_status)
    ELSE daily_status

RECURSIVE SortedKeys(_)
\* sorted(daily_status.keys())
SortedKeys(S) ==
    IF S = {} THEN <<>>
    ELSE LET m == CHOOSE x \in S : \A y \in S : x <= y
         IN  <<m>> \o SortedKeys(S \ {m})

\* the result dict: the sorted day labels and one list per series
CfdResult(daily_status) ==
    LET sorted_dates == SortedKeys(DOMAIN daily_status) IN
    [dates       |-> sorted_dates,
     todo        |-> [i \in DOMAIN sorted_dates |-> daily_status[sorted_dates[i]].todo],
     in_progress |-> [i \in DOMAIN sorted_dates |-> daily_status[sorted_dates[i]].in_progress],
     done        |-> [i \in DOMAIN sorted_dates |-> daily_status[sorted_dates[i]].done],
     total       |-> [i \in DOMAIN sorted_dates |-> daily_status[sorted_dates[i]].total]]

RECURSIVE AllDates(_, _, _)
\* the list all_dates of the creation dates that parse, from the k-th row on
AllDates(rows, k, all_dates) ==
    IF k > Len(rows) THEN all_dates
    ELSE IF rows[k].createdAt.fmt = "none" \/ ParseRaises(rows[k].createdAt)
    THEN AllDates(rows, k + 1, all_dates)
    ELSE AllDates(rows, k + 1, Append(all_dates, ParseDate(rows[k].createdAt)))

\* min(all_dates): the first of the earliest instants
MinDate(all_dates) ==
    LET i == CHOOSE i \in DOMAIN all_dates :
                /\ \A j \in DOMAIN all_dates :
                      Instant(all_dates[i]) <= Instant(all_dates[j])
                /\ \A j \in 1..(i - 1) :
                      Instant(all_dates[j]) > Instant(all_dates[i])
    IN  all_dates[i]

\* cutoff_date of calculate_cfd_stats
CfdCutoff(rows, days, now) ==
    IF days = None
    THEN IF AllDates(rows, 1, <<>>) # <<>>
         THEN MinDate(AllDates(rows, 1, <<>>))
         ELSE [now EXCEPT !.day = @ - DefaultDays]
    ELSE [now EXCEPT !.day = @ - days]

\* calculate_cfd_stats(issues, days) called at the local time now
calculate_cfd_stats(rows, days, now) ==
    LET current_date == [CfdCutoff(rows, days, now) EXCEPT !.tod = 0]
        end_date     == [now EXCEPT !.tod = TicksPerDay - 1]
    IN  CfdResult(DayLoop(rows, current_date, end_date, <<>>))

\* calculate_cfd_stats_date_range(issues, start_date_str, end_date_str)
calculate_cfd_stats_date_range(rows, startDay, endDay) ==
    CfdResult(DayLoop(rows, LocalTime(startDay, 0),
                      LocalTime(endDay, TicksPerDay - 1), <<>>))

-----------------------------------------------------------------------------
(* The aggregators on bounded row lists.  A row carries the keys the       *)
(* aggregators read: createdAt, state and the spent hours (centihours).    *)

MaxRows == 2

CreatedChoices ==
    {NoDate, BadDate, ZDate(8, 3), NaiveDate(9, 1), OffsetDate(10, 0, 2)}

RowChoices ==
    [Typ : {"issue"}, createdAt : CreatedChoices,
     state : {"opened", "closed"}, Zeitaufwand : {0, 150}]

InitCfd ==
    /\ issues \in SeqsUpTo(RowChoices, MaxRows)
    /\ items = <<>>
    /\ remote = <<>>
    /\ epic_tree = None
    /\ csv_rows = <<>>
    /\ users = <<>>
    /\ labels = <<>>
    /\ tt_users = <<>>
    /\ tt_labels = <<>>
    /\ result = NoResult
    /\ accCalls = <<>>
    /\ threads = <<>>

\* cfd_stats = calculate_cfd_stats(issues, days)
CalculateCfdStats(days, now) ==
    /\ result' = [op |-> "calculate_cfd_stats",
                  ret |-> calculate_cfd_stats(issues, days, now)]
    /\ UNCHANGED <<items, epic_tree, csv_rows, users, labels, tt_users,
                   tt_labels, remote, issues, accCalls, threads>>

\* cfd_stats = calculate_cfd_stats_date_range(issues, start_date, end_date)
CalculateCfdStatsDateRange(startDay, endDay) ==
    /\ result' = [op |-> "calculate_cfd_stats_date_range",
                  ret |-> calculate_cfd_stats_date_range(issues, startDay, endDay)]
    /\ UNCHANGED <<items, epic_tree, csv_rows, users, labels, tt_users,
                   tt_labels, remote, issues, accCalls, threads>>

NextCfd ==
    \/ \E days \in {None} \cup 1..MaxDays, now \in NowChoices :
          CalculateCfdStats(days, now)
    \/ \E r \in RangeChoices : CalculateCfdStatsDateRange(r[1], r[2])

SpecCfd == InitCfd /\ [][NextCfd]_vars

IsCfdResult ==
    result.op \in {"calculate_cfd_stats", "calculate_cfd_stats_date_range"}

\* the rows that have a creation date, and it is on or before day d
CreatedBy(d) ==
    {k \in DOMAIN issues :
        /\ issues[k].createdAt.fmt \in {"Z", "offset", "naive"}
        /\ issues[k].createdAt.day <= d}

\* C8: for every day of the cumulative-flow result, todo + in_progress +
\* done = total, and the three buckets together hold every row with a
\* creation date on or before that day exactly once (their sum is the number
\* of those rows).
C8_BucketsPartitionCreatedRows ==
    IsCfdResult =>
        \A i \in DOMAIN result.ret.dates :
            /\ result.ret.todo[i] + result.ret.in_progress[i] + result.ret.done[i]
                  = result.ret.total[i]
            /\ result.ret.total[i] = Cardinality(CreatedBy(result.ret.dates[i]))

C8_Witness ==
    /\ IsCfdResult
    /\ \E i \in DOMAIN result.ret.dates :
          /\ result.ret.done[i] = 1
          /\ result.ret.todo[i] + result.ret.in_progress[i] = 1
          /\ result.ret.total[i] = 2

\* C9: on every day, done counts the closed rows created by that day
\* (whatever their hours), in_progress the rows not closed with hours > 0,
\* and todo the rows not closed with zero hours.
C9_ClosedBeforeHours ==
    IsCfdResult =>
        \A i \in DOMAIN result.ret.dates :
            LET S == CreatedBy(result.ret.dates[i]) IN
            /\ result.ret.done[i] =
                  Cardinality({k \in S : issues[k].state = "closed"})
            /\ result.ret.in_progress[i] =
                  Cardinality({k \in S : issues[k].state # "closed"
                                          /\ issues[k].Zeitaufwand > 0})
            /\ result.ret.todo[i] =
                  Cardinality({k \in S : issues[k].state # "closed"
                                          /\ issues[k].Zeitaufwand = 0})

C9_Witness ==
    /\ IsCfdResult
    /\ \E i \in DOMAIN result.ret.dates :
          /\ result.ret.done[i] = 1
          /\ result.ret.in_progress[i] = 1
          /\ \E k \in CreatedBy(result.ret.dates[i]) :
                issues[k].state = "closed" /\ issues[k].Zeitaufwand > 0

\* C10: a day's buckets hold no row created after that day (no row without
\* a creation date either), and the total series never decreases from one
\* day to the next.
C10_LaterIssuesExcludedTotalMonotone ==
    IsCfdResult =>
        /\ \A i \in DOMAIN result.ret.dates :
              result.ret.todo[i] + result.ret.in_progress[i] + result.ret.done[i]
                 <= Cardinality(CreatedBy(result.ret.dates[i]))
        /\ \A i \in DOMAIN result.ret.dates :
              i > 1 => /\ result.ret.dates[i - 1] < result.ret.dates[i]
                       /\ result.ret.total[i - 1] <= result.ret.total[i]

C10_Witness ==
    /\ IsCfdResult
    /\ \E i \in DOMAIN result.ret.dates :
          /\ i > 1
          /\ result.ret.total[i - 1] = 0
          /\ result.ret.total[i] = 1
          /\ \E k \in DOMAIN issues :
                /\ issues[k].createdAt.fmt \in {"Z", "offset", "naive"}
                /\ issues[k].createdAt.day = result.ret.dates[i]

-----------------------------------------------------------------------------
(* src/app.py: the label timeline.  Hours split among labels are kept in   *)
(* units of 1/LabelUnits centihour, so that a split among up to four       *)
(* labels is exact.                                                        *)

\* target_matrix_labels of get_data
TargetLabels ==
    <<"Entwurf", "Implementation & Test", "Projektmanagement",
      "Requirements Engineering">>

\* the least common multiple of the possible len(issue_labels), 1 to 4
LabelUnits == 12

\* issue.get(label, False)
RowHasLabel(issue, label) == label \in DOMAIN issue.label /\ issue.label[label]

\* issue.get(user, 0)
RowShare(issue, user) == IF user \in DOMAIN issue.user THEN issue.user[user] ELSE 0

\* [label for label in target_labels if issue.get(label, False)]
MatchingLabels(issue, target_labels) ==
    LET Has(l) == RowHasLabel(issue, l) IN SelectSeq(target_labels, Has)

\* time_per_label = time_spent / len(issue_labels), for each matching label
SplitEqually(time_spent, issue_labels) ==
    [l \in Range(issue_labels) |-> (time_spent * LabelUnits) \div Len(issue_labels)]

\* daily_label_hours[day_label][label], a defaultdict of zeros
DailyGet(daily, day_label, label) ==
    IF day_label \in DOMAIN daily /\ label \in DOMAIN daily[day_label]
    THEN daily[day_label][label] ELSE 0

\* daily_label_hours[day_label][label] += time_per_label for label in issue_labels
DailyAdd(daily, day_label, target_labels, add) ==
    (day_label :> [l \in Range(target_labels) |->
                     DailyGet(daily, day_label, l)
                       + (IF l \in DOMAIN add THEN add[l] ELSE 0)])
       @@ daily

RECURSIVE LabelHoursLoop(_, _, _, _, _, _)
\* the loop `for issue in issues` of the label timeline, from the k-th row on;
\* lo and hi are the window's ends (current_date / start_date, end_date)
LabelHoursLoop(rows, k, target_labels, lo, hi, daily) ==
    IF k > Len(rows) THEN daily
    ELSE LET issue        == rows[k]
             created_date == ParseDate(issue.createdAt)
             issue_labels == MatchingLabels(issue, target_labels)
             time_spent   == issue.Zeitaufwand
         IN  IF issue.createdAt.fmt = "none" \/ ParseRaises(issue.createdAt)
             THEN LabelHoursLoop(rows, k + 1, target_labels, lo, hi, daily)
             ELSE IF issue_labels = <<>>
             THEN LabelHoursLoop(rows, k + 1, target_labels, lo, hi, daily)
             ELSE IF /\ time_spent > 0
                     /\ Instant(created_date) >= Instant(lo)
                     /\ Instant(created_date) <= Instant(hi)
             THEN LabelHoursLoop(rows, k + 1, target_labels, lo, hi,
                     DailyAdd(daily, created_date.day, target_labels,
                              SplitEqually(time_spent, issue_labels)))
             ELSE LabelHoursLoop(rows, k + 1, target_labels, lo, hi, daily)

\* each day's own hours in place of the running sum
PerDayValue(cumulative, today) == today

\* cumulative_hours[label] += daily_label_hours[day_label].get(label, 0)
CumulativeValue(cumulative, today) == cumulative + today

\* round(cumulative_hours[label], 2)
RoundUnits(x) == RoundDiv(x, LabelUnits)

RECURSIVE CumulativeLoop(_, _, _, _, _, _, _)
\* while day <= end_date of the label timeline: the dates and the data lists
CumulativeLoop(day, end_date, target_labels, daily, cumulative_hours, sorted_dates, cumulative_data) ==
    IF Instant(day) <= Instant(end_date)
    THEN LET next == [l \in Range(target_labels) |->
                        CumulativeValue(cumulative_hours[l],
                                        DailyGet(daily, day.day, l))]
         IN  CumulativeLoop([day EXCEPT !.day = @ + 1], end_date, target_labels,
                 daily, next, Append(sorted_dates, day.day),
                 [l \in Range(target_labels) |->
                     Append(cumulative_data[l], RoundUnits(next[l]))])
    ELSE [dates |-> sorted_dates, labels |-> target_labels,
          data |-> cumulative_data]

\* the timeline over the window from current_date to end_date
LabelTimeline(rows, target_labels, current_date, end_date) ==
    CumulativeLoop(current_date, end_date, target_labels,
        LabelHoursLoop(rows, 1, target_labels, current_date, end_date, <<>>),
        [l \in Range(target_labels) |-> 0], <<>>,
        [l \in Range(target_labels) |-> <<>>])

\* calculate_label_timeline_stats(issues, target_labels, days) called at the
\* local time now; its cutoff_date is computed as calculate_cfd_stats does
calculate_label_timeline_stats(rows, target_labels, days, now) ==
    LabelTimeline(rows, target_labels,
                  [CfdCutoff(rows, days, now) EXCEPT !.tod = 0],
                  [now EXCEPT !.tod = TicksPerDay - 1])

\* calculate_label_timeline_stats_date_range(issues, target_labels, start, end)
calculate_label_timeline_stats_date_range(rows, target_labels, startDay, endDay) ==
    LabelTimeline(rows, target_labels, LocalTime(startDay, 0),
                  LocalTime(endDay, TicksPerDay - 1))

-----------------------------------------------------------------------------
(* src/app.py: the creation histogram and the user x label matrix          *)

\* the bucket of an issue without a contributing user
Unbekannt == "Unbekannt"

\* max_user = None (`if max_user` is as false for it as for an empty name)
NoUser == ""

\* created_date.weekday(): day 0 of the calendar is a Monday
Weekday(day) == day % 7

\* week_start.strftime('%Y-%m-%d'): the Monday of the creation date's week
WeekLabel(created_date) == created_date.day - Weekday(created_date.day)

\* the last user of the largest share
LastMaxUser(issue, userList, k, max_user, max_percentage) ==
    LET best == CHOOSE i \in {0} \cup DOMAIN userList :
                   IF \A j \in DOMAIN userList : RowShare(issue, userList[j]) <= 0
                   THEN i = 0
                   ELSE /\ i # 0
                        /\ \A j \in DOMAIN userList :
                              RowShare(issue, userList[j]) <= RowShare(issue, userList[i])
                        /\ \A j \in DOMAIN userList :
                              j > i => RowShare(issue, userList[j])
                                          < RowShare(issue, userList[i])
    IN  IF best = 0 THEN NoUser ELSE userList[best]

RECURSIVE MaxUser(_, _, _, _, _)
\* the loop `for user in users` that finds max_user, from the k-th user on
MaxUser(issue, userList, k, max_user, max_percentage) ==
    IF k > Len(userList) THEN max_user
    ELSE IF RowShare(issue, userList[k]) > max_percentage
    THEN MaxUser(issue, userList, k + 1, userList[k], RowShare(issue, userList[k]))
    ELSE MaxUser(issue, userList, k + 1, max_user, max_percentage)

\* weekly_stats[week_label][name], a defaultdict of defaultdict(int)
WeeklyGet(weekly_stats, week_label, name) ==
    IF week_label \in DOMAIN weekly_stats /\ name \in DOMAIN weekly_stats[week_label]
    THEN weekly_stats[week_label][name] ELSE 0

\* weekly_stats[week_label][name] += 1
WeeklyIncrement(weekly_stats, week_label, name) ==
    (week_label :>
        ((name :> WeeklyGet(weekly_stats, week_label, name) + 1)
            @@ (IF week_label \in DOMAIN weekly_stats
                THEN weekly_stats[week_label] ELSE <<>>)))
       @@ weekly_stats

RECURSIVE CreationLoop(_, _, _, _, _)
\* the loop `for issue in issues` of the creation histogram, from the k-th
\* row on; w is the window the creation date is tested against
CreationLoop(rows, k, userList, w, weekly_stats) ==
    IF k > Len(rows) THEN weekly_stats
    ELSE LET issue        == rows[k]
             created_date == ParseDate(issue.createdAt)
             max_user     == MaxUser(issue, userList, 1, NoUser, 0)
         IN  IF issue.createdAt.fmt = "none" \/ ParseRaises(issue.createdAt)
             THEN CreationLoop(rows, k + 1, userList, w, weekly_stats)
             ELSE IF ~(w.hasLo => w.lo <= Instant(created_date))
                     \/ ~(w.hasHi => Instant(created_date) <= w.hi)
             THEN CreationLoop(rows, k + 1, userList, w, weekly_stats)
             ELSE CreationLoop(rows, k + 1, userList, w,
                     WeeklyIncrement(weekly_stats, WeekLabel(created_date),
                        IF max_user # NoUser THEN max_user ELSE Unbekannt))

\* the result dict: the sorted weeks and, for every user (and Unbekannt)
\* with a count, the list of its counts
CreationResult(weekly_stats, userList) ==
    LET sorted_weeks == SortedKeys(DOMAIN weekly_stats)
        names        == Range(userList) \cup {Unbekannt}
        series(n)    == [i \in DOMAIN sorted_weeks |->
                            WeeklyGet(weekly_stats, sorted_weeks[i], n)]
    IN  [weeks |-> sorted_weeks,
         user_data |-> [n \in {x \in names : SumSeq(series(x)) > 0} |-> series(n)]]

\* cutoff_date of calculate_creation_stats: none, or now - timedelta(days)
CreationCutoff(days, now) ==
    IF days = None
    THEN [hasLo |-> FALSE, lo |-> 0, hasHi |-> FALSE, hi |-> 0]
    ELSE [hasLo |-> TRUE, lo |-> Instant(now) - days * TicksPerDay,
          hasHi |-> FALSE, hi |-> 0]

\* start_date and end_date of calculate_creation_stats_date_range: the
\* parsed date strings, both at 00:00 local time
CreationRange(startDay, endDay) ==
    [hasLo |-> TRUE, lo |-> Instant(LocalTime(startDay, 0)),
     hasHi |-> TRUE, hi |-> Instant(LocalTime(endDay, 0))]

\* calculate_creation_stats(issues, days) called at the local time now
calculate_creation_stats(rows, userList, days, now) ==
    CreationResult(
        CreationLoop(rows, 1, userList, CreationCutoff(days, now), <<>>),
        userList)

\* calculate_creation_stats_date_range(issues, start_date_str, end_date_str)
calculate_creation_stats_date_range(rows, userList, startDay, endDay) ==
    CreationResult(
        CreationLoop(rows, 1, userList, CreationRange(startDay, endDay), <<>>),
        userList)

\* a user's time on an issue under every matching label, undivided
UserTimeUndivided(total_time, user_percentage, active_labels) ==
    total_time * user_percentage * LabelUnits

\* time_per_label = total_time * user_percentage / len(active_labels)
UserTimePerLabel(total_time, user_percentage, active_labels) ==
    (total_time * user_percentage * LabelUnits) \div Len(active_labels)

RECURSIVE MatrixLoop(_, _, _, _, _)
\* the loop `for issue in issues` of the matrix, from the k-th row on
MatrixLoop(rows, k, target_labels, userList, matrix) ==
    IF k > Len(rows) THEN matrix
    ELSE LET issue         == rows[k]
             active_labels == MatchingLabels(issue, target_labels)
             total_time    == issue.Zeitaufwand
         IN  IF active_labels = <<>> \/ total_time <= 0
             THEN MatrixLoop(rows, k + 1, target_labels, userList, matrix)
             ELSE MatrixLoop(rows, k + 1, target_labels, userList,
                     [u \in DOMAIN matrix |-> [l \in DOMAIN matrix[u] |->
                         IF RowShare(issue, u) > 0 /\ l \in Range(active_labels)
                         THEN matrix[u][l]
                                + UserTimePerLabel(total_time, RowShare(issue, u),
                                                   active_labels)
                         ELSE matrix[u][l]]])

\* calculate_user_label_matrix(issues, target_labels, users): the entries
\* rounded to 2 decimals (centihours)
calculate_user_label_matrix(rows, target_labels, userList) ==
    LET matrix == MatrixLoop(rows, 1, target_labels, userList,
                     [u \in Range(userList) |-> [l \in Range(target_labels) |-> 0]])
    IN  [u \in DOMAIN matrix |-> [l \in DOMAIN matrix[u] |->
            RoundDiv(matrix[u][l], 10000 * LabelUnits)]]

-----------------------------------------------------------------------------
(* The label timeline, the creation histogram and the matrix on bounded    *)
(* row lists.  A row carries the keys these aggregators read: createdAt,   *)
(* the spent hours (centihours), one flag per known label and one share    *)
(* (units of 0.0001) per known user.                                       *)

\* the known users (sorted)
StatUsers == <<"Buerek", "Nivek">>

\* the known labels
StatLabels ==
    {"Entwurf", "Implementation & Test", "Projektmanagement", "Sonstiges"}

StatRow(created, hours, labs, shares) ==
    [Typ |-> "issue", createdAt |-> created, state |-> "opened",
     Zeitaufwand |-> hours,
     label |-> [l \in StatLabels |-> l \in labs],
     user |-> [u \in Range(StatUsers) |->
                 IF u = StatUsers[1] THEN shares[1] ELSE shares[2]]]

StatRowChoices ==
    {StatRow(ZDate(8, 3), 120, {"Entwurf"}, <<10000, 0>>),
     StatRow(ZDate(9, 3), 1000, {"Entwurf", "Projektmanagement"}, <<5000, 5000>>),
     StatRow(NaiveDate(9, 1), 120,
             {"Entwurf", "Implementation & Test", "Projektmanagement"},
             <<2500, 7500>>),
     StatRow(NaiveDate(9, 1), 0, {"Entwurf"}, <<0, 0>>),
     StatRow(OffsetDate(10, 0, 2), 1000, {"Projektmanagement", "Sonstiges"},
             <<0, 10000>>),
     StatRow(NoDate, 120, {"Entwurf"}, <<10000, 0>>),
     StatRow(BadDate, 1000, {"Projektmanagement"}, <<5000, 5000>>),
     StatRow(NaiveDate(3, 2), 120, {"Sonstiges"}, <<3333, 6667>>),
     StatRow(NaiveDate(10, 1), 1000, {}, <<0, 0>>),
     StatRow(NaiveDate(10, 1), 120, {"Entwurf"}, <<7500, 2500>>)}

MaxStatRows == 2

InitStats ==
    /\ issues \in SeqsUpTo(StatRowChoices, MaxStatRows)
    /\ users = StatUsers
    /\ labels = SortedSet(<<"Entwurf", "Implementation & Test",
                            "Projektmanagement", "Sonstiges">>)
    /\ items = <<>>
    /\ remote = <<>>
    /\ epic_tree = None
    /\ csv_rows = <<>>
    /\ tt_users = <<>>
    /\ tt_labels = <<>>
    /\ result = NoResult
    /\ accCalls = <<>>
    /\ threads = <<>>

StatsUnchanged ==
    UNCHANGED <<items, epic_tree, csv_rows, users, labels, tt_users,
                tt_labels, remote, issues, accCalls, threads>>

\* label_timeline_stats = calculate_label_timeline_stats(issues, labels, days)
CalculateLabelTimelineStats(days, now) ==
    /\ result' = [op |-> "calculate_label_timeline_stats",
                  ret |-> calculate_label_timeline_stats(issues, TargetLabels,
                                                         days, now)]
    /\ StatsUnchanged

\* label_timeline_stats = calculate_label_timeline_stats_date_range(...)
CalculateLabelTimelineStatsDateRange(startDay, endDay) ==
    /\ result' = [op |-> "calculate_label_timeline_stats_date_range",
                  ret |-> calculate_label_timeline_stats_date_range(
                              issues, TargetLabels, startDay, endDay)]
    /\ StatsUnchanged

\* creation_stats = calculate_creation_stats(issues, days)
CalculateCreationStats(days, now) ==
    /\ result' = [op |-> "calculate_creation_stats",
                  window |-> CreationCutoff(days, now),
                  ret |-> calculate_creation_stats(issues, users, days, now)]
    /\ StatsUnchanged

\* creation_stats = calculate_creation_stats_date_range(issues, start, end)
CalculateCreationStatsDateRange(startDay, endDay) ==
    /\ result' = [op |-> "calculate_creation_stats_date_range",
                  window |-> CreationRange(startDay, endDay),
                  ret |-> calculate_creation_stats_date_range(issues, users,
                                                              startDay, endDay)]
    /\ StatsUnchanged

\* user_label_matrix = calculate_user_label_matrix(issues, labels, users)
CalculateUserLabelMatrix ==
    /\ result' = [op |-> "calculate_user_label_matrix",
                  ret |-> calculate_user_label_matrix(issues, TargetLabels, users)]
    /\ StatsUnchanged

NextStats ==
    \/ \E days \in {None} \cup 1..MaxDays, now \in NowChoices :
          CalculateLabelTimelineStats(days, now)
    \/ \E r \in RangeChoices : CalculateLabelTimelineStatsDateRange(r[1], r[2])
    \/ \E days \in {None} \cup 1..MaxDays, now \in NowChoices :
          CalculateCreationStats(days, now)
    \/ \E r \in RangeChoices : CalculateCreationStatsDateRange(r[1], r[2])
    \/ CalculateUserLabelMatrix

SpecStats == InitStats /\ [][NextStats]_vars

IsTimelineResult ==
    result.op \in {"calculate_label_timeline_stats",
                   "calculate_label_timeline_stats_date_range"}

\* C11: for every target label the timeline's values never decrease along
\* the date sequence, and the dates are in increasing order.
C11_TimelineNonDecreasing ==
    IsTimelineResult =>
        \A l \in Range(TargetLabels) :
            /\ Len(result.ret.data[l]) = Len(result.ret.dates)
            /\ \A i \in DOMAIN result.ret.dates :
                  i > 1 => /\ result.ret.dates[i - 1] < result.ret.dates[i]
                           /\ result.ret.data[l][i - 1] <= result.ret.data[l][i]

C11_Witness ==
    /\ IsTimelineResult
    /\ \E l \in Range(TargetLabels) : \E i, j \in DOMAIN result.ret.dates :
          /\ i < j /\ j < Len(result.ret.dates)
          /\ 0 < result.ret.data[l][i]
          /\ result.ret.data[l][i] < result.ret.data[l][j]
          /\ result.ret.data[l][j] = result.ret.data[l][j + 1]

\* the rows that have a creation date from day d0 to day d, hours > 0 and
\* the target label l
LabelledCreated(l, d0, d) ==
    {k \in DOMAIN issues :
        /\ issues[k].createdAt.fmt \in {"Z", "offset", "naive"}
        /\ d0 <= issues[k].createdAt.day /\ issues[k].createdAt.day <= d
        /\ issues[k].Zeitaufwand > 0
        /\ RowHasLabel(issues[k], l)}

\* h / k of row k, in units of 1/LabelUnits centihour
EqualShare(k) ==
    (issues[k].Zeitaufwand * LabelUnits)
        \div Cardinality({l \in Range(TargetLabels) : RowHasLabel(issues[k], l)})

\* C12 (as claimed): on every day d of the timeline the value of a target
\* label is (to 2 decimals) the sum of h / k over the issues with hours
\* h > 0 that carry the label among their k target labels and whose creation
\* day is a day of the timeline up to d; other issues add nothing.
C12_TimelineAddsEqualShares ==
    IsTimelineResult =>
        \A l \in Range(TargetLabels) : \A i \in DOMAIN result.ret.dates :
            result.ret.data[l][i] =
                RoundUnits(SumOver(
                    LabelledCreated(l, result.ret.dates[1], result.ret.dates[i]),
                    [k \in DOMAIN issues |-> EqualShare(k)]))

IsCreationResult ==
    result.op \in {"calculate_creation_stats",
                   "calculate_creation_stats_date_range"}

\* the rows the histogram counts: a creation date that parses and lies in
\* the window of the call
CountedRows ==
    {k \in DOMAIN issues :
        /\ issues[k].createdAt.fmt \in {"Z", "offset", "naive"}
        /\ result.window.hasLo =>
              result.window.lo <= Instant(ParseDate(issues[k].createdAt))
        /\ result.window.hasHi =>
              Instant(ParseDate(issues[k].createdAt)) <= result.window.hi}

\* the name row k is to be counted under: the first user, in the order of
\* the sorted user list, whose share is the greatest, if that share is > 0
AttributedTo(k) ==
    IF \A i \in DOMAIN users : RowShare(issues[k], users[i]) <= 0
    THEN Unbekannt
    ELSE users[CHOOSE i \in DOMAIN users :
                  /\ \A j \in DOMAIN users :
                        RowShare(issues[k], users[j]) <= RowShare(issues[k], users[i])
                  /\ \A j \in 1..(i - 1) :
                        RowShare(issues[k], users[j]) < RowShare(issues[k], users[i])]

\* the count the result holds for week w and name n
HistogramCount(w, n) ==
    IF n \in DOMAIN result.ret.user_data
    THEN SumOver({i \in DOMAIN result.ret.weeks : result.ret.weeks[i] = w},
                 result.ret.user_data[n])
    ELSE 0

\* C13: the count of every (week, name) is the number of counted issues of
\* that creation week whose greatest share belongs to that user (the first of
\* them in sorted user order on a tie), or, for Unbekannt, whose shares are
\* all zero; so every counted issue is in exactly one count.
C13_HistogramAttributesToGreatestShare ==
    IsCreationResult =>
        /\ \A n \in DOMAIN result.ret.user_data :
              /\ n \in Range(users) \cup {Unbekannt}
              /\ Len(result.ret.user_data[n]) = Len(result.ret.weeks)
        /\ \A i, j \in DOMAIN result.ret.weeks :
              i < j => result.ret.weeks[i] < result.ret.weeks[j]
        /\ \A i \in DOMAIN result.ret.weeks :
              \E k \in CountedRows : WeekLabel(issues[k].createdAt) = result.ret.weeks[i]
        /\ \A k \in CountedRows : \A n \in Range(users) \cup {Unbekannt} :
              HistogramCount(WeekLabel(issues[k].createdAt), n) =
                 Cardinality({k2 \in CountedRows :
                     /\ WeekLabel(issues[k2].createdAt) = WeekLabel(issues[k].createdAt)
                     /\ AttributedTo(k2) = n})

C13_Witness ==
    /\ IsCreationResult
    /\ \E k \in CountedRows :
          /\ RowShare(issues[k], users[1]) = RowShare(issues[k], users[2])
          /\ RowShare(issues[k], users[1]) > 0
          /\ HistogramCount(WeekLabel(issues[k].createdAt), users[1]) = 1
          /\ HistogramCount(WeekLabel(issues[k].createdAt), users[2]) = 0
    /\ \E k \in CountedRows :
          HistogramCount(WeekLabel(issues[k].createdAt), Unbekannt) = 1

\* the issues the histogram result counts, over all weeks and names
HistogramTotal ==
    SumOver(DOMAIN result.ret.user_data,
            [n \in DOMAIN result.ret.user_data |-> SumSeq(result.ret.user_data[n])])

\* the rows whose creation date parses and lies between the start of the
\* window of the call and the end of the day its end date names (the
\* window of the date filter, the cumulative flow and the label timeline)
CreatedInWholeDayRange ==
    {k \in DOMAIN issues :
        /\ issues[k].createdAt.fmt \in {"Z", "offset", "naive"}
        /\ result.window.lo <= Instant(ParseDate(issues[k].createdAt))
        /\ Instant(ParseDate(issues[k].createdAt))
              <= result.window.hi + (TicksPerDay - 1)}

\* C27 (as claimed): in range mode the creation histogram counts every
\* issue created from the start date to the end of the end date, whatever
\* the time of day.
C27_RangeHistogramCountsWholeEndDay ==
    result.op = "calculate_creation_stats_date_range" =>
        HistogramTotal = Cardinality(CreatedInWholeDayRange)

\* the number of target labels row k carries
TargetCount(k) ==
    Cardinality({l \in Range(TargetLabels) : RowHasLabel(issues[k], l)})

\* the rows that carry target label l and have hours > 0
LabelledRows(l) ==
    {k \in DOMAIN issues : RowHasLabel(issues[k], l) /\ issues[k].Zeitaufwand > 0}

\* C14: the matrix entry of user u and target label L is (to 2 decimals) the
\* sum, over the issue rows that carry L and have hours > 0, of
\* hours * share(u) / (number of target labels of the issue); the matrix has
\* no other entries, so an issue without target label is in none.
C14_MatrixSumsSharesPerLabel ==
    result.op = "calculate_user_label_matrix" =>
        /\ DOMAIN result.ret = Range(users)
        /\ \A u \in Range(users) :
              /\ DOMAIN result.ret[u] = Range(TargetLabels)
              /\ \A l \in Range(TargetLabels) :
                    result.ret[u][l] =
                       RoundDiv(SumOver(LabelledRows(l),
                            [k \in DOMAIN issues |->
                                (issues[k].Zeitaufwand * RowShare(issues[k], u)
                                    * LabelUnits) \div TargetCount(k)]),
                            10000 * LabelUnits)

C14_Witness ==
    /\ result.op = "calculate_user_label_matrix"
    /\ \E k \in DOMAIN issues :
          /\ TargetCount(k) = 2
          /\ issues[k].Zeitaufwand = 1000
          /\ result.ret["Nivek"]["Entwurf"] = 250
          /\ result.ret["Nivek"]["Projektmanagement"] = 250
          /\ result.ret["Buerek"]["Entwurf"] = 250
          /\ result.ret["Nivek"]["Requirements Engineering"] = 0
    /\ \E k \in DOMAIN issues : TargetCount(k) = 0 /\ issues[k].Zeitaufwand > 0

\* C30 (as claimed): for every target label the last value of its series
\* is (to 2 decimals) the sum of h / k over all rows passed in that carry
\* the label among their k target labels, have a creation date and hours
\* h > 0, wherever their creation date lies.
C30_TimelineConservesHours ==
    (IsTimelineResult /\ Len(result.ret.dates) > 0) =>
        \A l \in Range(TargetLabels) :
            result.ret.data[l][Len(result.ret.dates)] =
                RoundUnits(SumOver(
                    {k \in LabelledRows(l) :
                        issues[k].createdAt.fmt \in {"Z", "offset", "naive"}},
                    [k \in DOMAIN issues |-> EqualShare(k)]))

-----------------------------------------------------------------------------
(* Error handling of the date filters and of load_data                     *)

\* the time entries of issue o whose date is missing or malformed
UnparsedEntries(o) ==
    {<<u, k>> \in UNION {{u2} \X DOMAIN o.userTimeMap.entries[u2] :
                            u2 \in DOMAIN o.userTimeMap.entries} :
        ParseRaises(o.userTimeMap.entries[u][k].Datum)}

\* all the time entries of issue o
AllEntries(o) ==
    UNION {{u} \X DOMAIN o.userTimeMap.entries[u] :
              u \in DOMAIN o.userTimeMap.entries}

\* C15 (as claimed): under a date filter an issue with a time entry whose
\* date is missing or malformed gets the hours of its other entries that lie
\* in the window (the entry is skipped), and 0 hours if none of its entries
\* parses; the filter returns a row for every node.
C15_MalformedEntriesSkipped ==
    IsFilterResult =>
        LET order == Preorder(items, epic_tree) IN
        /\ Len(result.ret) = Len(order)
        /\ \A k \in DOMAIN order :
              (/\ items[order[k]].type = "issue"
               /\ UnparsedEntries(items[order[k]]) # {}) =>
                 /\ result.ret[k].Zeitaufwand =
                       Round2(WindowedSeconds(items[order[k]], result.window))
                 /\ UnparsedEntries(items[order[k]]) = AllEntries(items[order[k]])
                       => result.ret[k].Zeitaufwand = 0

RECURSIVE ExactWindowed(_, _, _)
\* the windowed seconds of node n before any rounding: an Issue's
\* filtered_hours_spent, an Epic's sum over its children
ExactWindowed(h, n, w) ==
    IF h[n].type = "issue" THEN FilteredTimes(h[n], w).spent
    ELSE SumSeq([k \in DOMAIN h[n].children |->
                    ExactWindowed(h, h[n].children[k], w)])

\* C25 (as claimed): under a date filter an epic row's hours are the sum
\* of its children's windowed hours taken unrounded, rounded once to 2
\* decimals when the row is written.
C25_EpicHoursRoundedOnce ==
    IsFilterResult =>
        LET order == Preorder(items, epic_tree) IN
        \A k \in DOMAIN order :
            items[order[k]].type = "epic" =>
                result.ret[k].Zeitaufwand =
                    Round2(ExactWindowed(items, order[k], result.window))

\* C28 (as claimed): under a date filter, for every Issue the windowed
\* hours are the sum of the per-user windowed hours of the known users, so
\* that the unrounded shares sum to 1 when the hours are > 0 (and are all
\* 0 otherwise), also when a date failed to parse.
C28_FilteredSharesSumToOne ==
    IsFilterResult =>
        \A n \in Descendants(items, epic_tree) :
            items[n].type = "issue" =>
                LET f     == FilteredTimes(items[n], result.window)
                    known == DOMAIN f.times \cap Range(users)
                IN  f.spent = SumOver(known, [u \in known |-> f.times[u]])

\* the record the remote holds for issue node n of the cached tree
SourceRecords(n) ==
    LET recs == remote[items[items[n].parent].id].issues
    IN  {recs[k] : k \in {j \in DOMAIN recs : recs[j].iid = items[n].id}}

\* C22 (as claimed): after a load that built the tree and its rows, every
\* Issue of the tree still has the total-spent and the estimate its source
\* record gave it, whatever its time entries sum to.
C22_LoadKeepsSourceTotals ==
    (result.op = "load_data" /\ result.loading /\ ~result.raised) =>
        \A n \in Descendants(items, epic_tree) :
            items[n].type = "issue" =>
                \A rec \in SourceRecords(n) :
                    /\ items[n].hoursSpent = rec.totalTimeSpent
                    /\ items[n].hoursEstimate = rec.timeEstimate

-----------------------------------------------------------------------------
(* Loads one after the other while the remote data change between them     *)

\* an epic layout without issue B
LayoutWithoutB == [children |-> <<<<2>>, <<3>>, <<>>>>, a |-> 3, b |-> 0]

LogNivek  == [timeSpent |-> 3600, spentAt |-> SpentRecent, user |-> "Nivek"]
LogBuerek == [timeSpent |-> 1800, spentAt |-> SpentOld, user |-> "Buerek"]

\* issue['iid'] and child['iid']: an issue's iid counts within its project
\* and an epic's within the group, so the records of one epic can carry an
\* iid twice: an issue with the iid of a child epic, and two issues (of two
\* projects) with one iid
CollidingRemotes ==
    {[RemoteOf([children |-> <<<<2>>, <<3>>, <<>>>>, a |-> 1, b |-> 3],
               <<LogNivek>>, <<LogBuerek>>) EXCEPT ![1].issues[1].iid = 2],
     [RemoteOf([children |-> <<<<2>>, <<3>>, <<>>>>, a |-> 2, b |-> 2],
               <<LogNivek>>, <<LogBuerek>>) EXCEPT ![2].issues[2].iid = 11]}

\* what the remote answers at different times
ReloadRemotes ==
    {RemoteOf([children |-> <<<<2>>, <<3>>, <<>>>>, a |-> 3, b |-> 2],
              <<LogNivek>>, <<LogBuerek, LogNivek>>),
     RemoteOf(LayoutWithoutB, <<LogNivek>>, <<>>),
     RemoteOf([children |-> <<<<2, 3>>, <<>>, <<>>>>, a |-> 3, b |-> 3],
              <<>>, <<LogBuerek>>)} \cup CollidingRemotes

InitReload ==
    /\ remote \in ReloadRemotes
    /\ items = <<>>
    /\ epic_tree = None
    /\ csv_rows = <<>>
    /\ users = <<>>
    /\ labels = <<>>
    /\ tt_users = <<>>
    /\ tt_labels = <<>>
    /\ issues = <<>>
    /\ result = NoResult
    /\ accCalls = <<>>
    /\ threads = <<>>

\* the data at the remote change
RemoteUpdate(r) ==
    /\ remote' = r
    /\ result' = [op |-> "remote_update"]
    /\ UNCHANGED <<items, epic_tree, csv_rows, users, labels, tt_users,
                   tt_labels, issues, accCalls, threads>>

\* accumulateEpicTree(group_path, epic_iid, token=token) called on its own;
\* the tree it returns is dropped
AccumulateEpicTree(token, group_path, epic_id, failAt) ==
    LET b == accumulateEpicTree(
                [heap |-> <<>>, users |-> tt_users, labels |-> tt_labels],
                remote, [group_path |-> group_path, token |-> token],
                epic_id, failAt)
    IN  /\ tt_users' = b.st.users
        /\ tt_labels' = b.st.labels
        /\ result' = [op |-> "accumulateEpicTree", loading |-> TRUE,
                      args |-> <<token, group_path, epic_id>>,
                      prev |-> <<users, labels>>,
                      raised |-> ~b.ok, fetched |-> b.fetched]
        /\ UNCHANGED <<items, epic_tree, csv_rows, users, labels, remote,
                       issues, accCalls, threads>>

NextReload ==
    \/ \E force_refresh \in BOOLEAN, c \in ConfigChoices,
          failAt \in {None} \cup EpicIds :
          LoadData(force_refresh, c.token, c.group_path, c.epic_id, failAt)
    \/ \E c \in ConfigChoices, failAt \in {None} \cup EpicIds :
          AccumulateEpicTree(c.token, c.group_path, c.epic_id, failAt)
    \/ \E r \in ReloadRemotes : RemoteUpdate(r)

SpecReload == InitReload /\ [][NextReload]_vars

\* C16 (as claimed): a load in which a fetch fails leaves the cache (tree,
\* rows, user and label lists) exactly as it was before the load started.
C16_FailedFetchKeepsCache ==
    [][(result'.op = "load_data" /\ result'.raised /\ result'.fetched)
          => UNCHANGED <<items, epic_tree, csv_rows, users, labels>>]_vars

\* the configuration a call works with: its arguments, each falling back to
\* the environment, with the group path, the epic id or the token missing
ConfigMissing(args) ==
    \/ (args[1] = None /\ Getenv.TOKEN = None) \/ args[1] = Empty
    \/ (args[2] = None /\ Getenv.GROUP_FULL_PATH = None) \/ args[2] = Empty
    \/ (args[3] = None /\ Getenv.EPIC_ROOT_ID = None) \/ args[3] = Empty

\* C17: a load (load_data with nothing cached or with force_refresh) or a
\* tree build for which group path, epic id or token is missing or empty
\* raises, and no fetch is made.
C17_MissingConfigFailsBeforeFetch ==
    (/\ result.op \in {"load_data", "accumulateEpicTree"}
     /\ result.loading
     /\ ConfigMissing(result.args))
        => result.raised /\ ~result.fetched

C17_Witness ==
    /\ result.op = "load_data"
    /\ result.loading
    /\ result.args[2] = Empty
    /\ result.raised /\ ~result.fetched
    /\ epic_tree # None

\* the user names / labels on the issues of the cached tree
TreeUsers ==
    UNION {DOMAIN items[n].userTimeMap.entries :
              n \in {x \in Descendants(items, epic_tree) : items[x].type = "issue"}}
TreeLabels ==
    UNION {Range(items[n].labels) :
              n \in {x \in Descendants(items, epic_tree) : items[x].type = "issue"}}

\* a sequence in collating order without duplicates
IsSortedList(list) ==
    \A i, j \in DOMAIN list :
        i < j => \E a, b \in DOMAIN Collation :
                    a < b /\ Collation[a] = list[i] /\ Collation[b] = list[j]

\* C20: whenever a tree is cached, the cached user list and label list are
\* sorted, duplicate-free and hold exactly the user names and labels that
\* occur on the issues of that tree.
C20_ListsAreUnionOfLatestTree ==
    epic_tree # None =>
        /\ IsSortedList(users) /\ Range(users) = TreeUsers
        /\ IsSortedList(labels) /\ Range(labels) = TreeLabels

\* the children of epic node n are one issue per issue record of rec, then
\* one epic per child id of rec, each with n as its parent
ChildrenMatchRecord(n, rec) ==
    LET ch == items[n].children
        ni == Len(rec.issues)
    IN  /\ Len(ch) = ni + Len(rec.children)
        /\ \A k \in 1..ni :
               /\ items[ch[k]].type = "issue"
               /\ items[ch[k]].id = rec.issues[k].iid
               /\ items[ch[k]].parent = n
        /\ \A k \in 1..Len(rec.children) :
               /\ items[ch[ni + k]].type = "epic"
               /\ items[ch[ni + k]].id = rec.children[k]
               /\ items[ch[ni + k]].parent = n

\* C21 (as claimed): after a load that built a tree, the root of the tree
\* is the queried epic, and every epic node of the tree has as children
\* exactly one issue node per issue record the fetch returned for it,
\* followed by one epic node per child epic id, each with that epic as
\* its parent.
C21_TreeHoldsEveryFetchedRecord ==
    (result.op = "load_data" /\ result.loading /\ ~result.raised) =>
        /\ items[epic_tree].id = result.args[3]
        /\ \A n \in Descendants(items, epic_tree) :
               items[n].type = "epic" =>
                   ChildrenMatchRecord(n, remote[items[n].id])

-----------------------------------------------------------------------------
(* Loads that run at the same time.  The requests of the threaded server   *)
(* and the job of the background scheduler each call                       *)
(* load_data(force_refresh=True) in a thread of their own; the statements  *)
(* of load_data work on the module globals, and another thread can run     *)
(* between any two of them.  A thread is at the line it executes next.     *)

Threads == {1, 2}

\* the loads started, over all threads
MaxLoads == 2

\* the root epics the loads ask for
RaceEpicIds == {1, 3}

IdleThread == [pc |-> "idle", epic_id |-> None, loads |-> 0]

InitRace ==
    /\ remote \in ReloadRemotes
    /\ threads = [t \in Threads |-> IdleThread]
    /\ items = <<>>
    /\ epic_tree = None
    /\ csv_rows = <<>>
    /\ users = <<>>
    /\ labels = <<>>
    /\ tt_users = <<>>
    /\ tt_labels = <<>>
    /\ issues = <<>>
    /\ result = NoResult
    /\ accCalls = <<>>

\* thread t enters load_data(force_refresh=True, epic_id=...): line 67
LoadStart(t, epic_id) ==
    /\ threads[t].pc = "idle"
    /\ SumOver(Threads, [u \in Threads |-> threads[u].loads]) < MaxLoads
    /\ threads' = [threads EXCEPT ![t] = [pc |-> "l70", epic_id |-> epic_id,
                                          loads |-> @.loads + 1]]
    /\ result' = [op |-> "load_start"]
    /\ UNCHANGED <<items, epic_tree, csv_rows, users, labels, tt_users,
                   tt_labels, remote, issues, accCalls>>

\* line 70: csv_rows = []
LoadClearRows(t) ==
    /\ threads[t].pc = "l70"
    /\ csv_rows' = <<>>
    /\ threads' = [threads EXCEPT ![t].pc = "l86"]
    /\ result' = [op |-> "load_step"]
    /\ UNCHANGED <<items, epic_tree, users, labels, tt_users, tt_labels,
                   remote, issues, accCalls>>

\* lines 86-87: timetracker.users = []; timetracker.labels = []
LoadResetLists(t) ==
    /\ threads[t].pc = "l86"
    /\ tt_users' = ResetList(tt_users)
    /\ tt_labels' = ResetList(tt_labels)
    /\ threads' = [threads EXCEPT ![t].pc = "l91"]
    /\ result' = [op |-> "load_step"]
    /\ UNCHANGED <<items, epic_tree, csv_rows, users, labels, remote,
                   issues, accCalls>>

\* lines 91-95: epic_tree = accumulateEpicTree(...); the new objects are
\* allocated next to the ones that exist
LoadBuildTree(t) ==
    /\ threads[t].pc = "l91"
    /\ LET b == accumulateEpicTree(
                   [heap |-> items, users |-> tt_users, labels |-> tt_labels],
                   remote, [group_path |-> 1, token |-> 1],
                   threads[t].epic_id, None)
       IN  /\ b.ok
           /\ items' = b.st.heap
           /\ tt_users' = b.st.users
           /\ tt_labels' = b.st.labels
           /\ epic_tree' = b.ref
    /\ threads' = [threads EXCEPT ![t].pc = "l96"]
    /\ result' = [op |-> "load_step"]
    /\ UNCHANGED <<csv_rows, users, labels, remote, issues, accCalls>>

\* line 96: epic_tree.accumulateTimes(), on the tree the global names now
LoadAccumulate(t) ==
    /\ threads[t].pc = "l96"
    /\ items' = accumulateTimes(items, epic_tree).heap
    /\ threads' = [threads EXCEPT ![t].pc = "l99"]
    /\ result' = [op |-> "load_step"]
    /\ UNCHANGED <<epic_tree, csv_rows, users, labels, tt_users, tt_labels,
                   remote, issues, accCalls>>

\* lines 99-100: users = sorted(list(set(timetracker.users))); labels = ...
LoadSetLists(t) ==
    /\ threads[t].pc = "l99"
    /\ users' = SortedSet(tt_users)
    /\ labels' = SortedSet(tt_labels)
    /\ threads' = [threads EXCEPT ![t].pc = "l136"]
    /\ result' = [op |-> "load_step"]
    /\ UNCHANGED <<items, epic_tree, csv_rows, tt_users, tt_labels, remote,
                   issues, accCalls>>

\* line 136: build_rows(epic_tree) appends to the global csv_rows a row for
\* every node of the tree the global names now; the call returns
LoadBuildRows(t) ==
    /\ threads[t].pc = "l136"
    /\ LET br == build_rows([heap |-> items, rows |-> csv_rows], epic_tree,
                            users, labels)
       IN  /\ items' = br.heap
           /\ csv_rows' = br.rows
    /\ threads' = [threads EXCEPT ![t].pc = "idle"]
    /\ result' = [op |-> "load_step"]
    /\ UNCHANGED <<epic_tree, users, labels, tt_users, tt_labels, remote,
                   issues, accCalls>>

\* the accumulated totals of the cached tree's root (None without a tree)
RootTotals ==
    IF epic_tree = None THEN None
    ELSE <<items[epic_tree].id, items[epic_tree].hoursEstimate,
           items[epic_tree].hoursSpent>>

\* get_data without refresh, with a tree cached: it reads the cache
GetData ==
    /\ epic_tree # None
    /\ result' = [op |-> "get_data", data |-> csv_rows, users |-> users,
                  labels |-> labels, tree |-> RootTotals]
    /\ UNCHANGED <<items, epic_tree, csv_rows, users, labels, tt_users,
                   tt_labels, remote, issues, accCalls, threads>>

NextRace ==
    \/ \E t \in Threads, e \in RaceEpicIds : LoadStart(t, e)
    \/ \E t \in Threads : LoadClearRows(t)
    \/ \E t \in Threads : LoadResetLists(t)
    \/ \E t \in Threads : LoadBuildTree(t)
    \/ \E t \in Threads : LoadAccumulate(t)
    \/ \E t \in Threads : LoadSetLists(t)
    \/ \E t \in Threads : LoadBuildRows(t)
    \/ GetData

SpecRace == InitRace /\ [][NextRace]_vars

\* the cache a load of root epic e leaves when it runs alone: the root's
\* totals, the rows, the users, the labels
LoadAlone(e) ==
    LET b   == accumulateEpicTree([heap |-> <<>>, users |-> <<>>, labels |-> <<>>],
                                  remote, [group_path |-> 1, token |-> 1], e, None)
        acc == accumulateTimes(b.st.heap, b.ref)
        us  == SortedSet(b.st.users)
        ls  == SortedSet(b.st.labels)
        br  == build_rows([heap |-> acc.heap, rows |-> <<>>], b.ref, us, ls)
    IN  [data |-> br.rows, users |-> us, labels |-> ls,
         tree |-> <<acc.heap[b.ref].id, acc.heap[b.ref].hoursEstimate,
                    acc.heap[b.ref].hoursSpent>>]

\* C18 (as claimed): what a reader of the cache gets is always a complete
\* snapshot: the rows, users, labels and accumulated tree that one load
\* leaves, never an emptied or partly filled row list, a tree without
\* accumulated totals, or rows with another snapshot's users and labels.
C18_ReaderSeesCompleteSnapshot ==
    result.op = "get_data" =>
        \E e \in RaceEpicIds :
            /\ result.data = LoadAlone(e).data
            /\ result.users = LoadAlone(e).users
            /\ result.labels = LoadAlone(e).labels
            /\ result.tree = LoadAlone(e).tree

\* C19 (as claimed): once every load that was started has finished, the
\* cache is the one that one of the loads leaves when it runs alone.
C19_FinishedLoadsLeaveOneLoadsCache ==
    (/\ \A t \in Threads : threads[t].pc = "idle"
     /\ epic_tree # None) =>
        \E t \in Threads :
            /\ threads[t].loads > 0
            /\ csv_rows = LoadAlone(threads[t].epic_id).data
            /\ users = LoadAlone(threads[t].epic_id).users
            /\ labels = LoadAlone(threads[t].epic_id).labels
            /\ RootTotals = LoadAlone(threads[t].epic_id).tree

-----------------------------------------------------------------------------
(* /api/data in local mode: the request carries token, group path and epic *)
(* id.  The handler loads when refresh is asked for or nothing is cached,  *)
(* and answers from the cache.                                             *)

\* the rows of type issue: [d for d in data if d['Typ'] == 'issue']
IssueRows(data) == LET IsIssue(d) == d.Typ = "issue" IN SelectSeq(data, IsIssue)

\* get_data for ?mode=local&token=..&group_path=..&epic_id=..[&refresh=true]
\* [&days=..], served at the local time now.  The answer carries data,
\* users, labels and, of the statistics, cfd_stats.
GetDataLocal(refresh, token, group_path, epic_id, days, now) ==
    /\ UNCHANGED <<remote, issues, accCalls, threads>>
    /\ IF Missing(token) \/ Missing(group_path) \/ Missing(epic_id)
       THEN /\ result' = [op |-> "get_data", mode |-> "local", success |-> FALSE,
                          args |-> <<token, group_path, epic_id>>, days |-> days]
            /\ UNCHANGED <<items, epic_tree, csv_rows, users, labels,
                           tt_users, tt_labels>>
       ELSE /\ IF refresh \/ epic_tree = None
               THEN LET b   == accumulateEpicTree(
                                  [heap |-> <<>>, users |-> ResetList(tt_users),
                                   labels |-> ResetList(tt_labels)],
                                  remote,
                                  [group_path |-> group_path, token |-> token],
                                  epic_id, None)
                        acc == accumulateTimes(b.st.heap, b.ref)
                        us  == SortedSet(b.st.users)
                        ls  == SortedSet(b.st.labels)
                        br  == build_rows([heap |-> acc.heap, rows |-> <<>>],
                                          b.ref, us, ls)
                    IN  /\ b.ok
                        /\ items' = br.heap
                        /\ epic_tree' = b.ref
                        /\ csv_rows' = br.rows
                        /\ users' = us
                        /\ labels' = ls
                        /\ tt_users' = b.st.users
                        /\ tt_labels' = b.st.labels
               ELSE UNCHANGED <<items, epic_tree, csv_rows, users, labels,
                                tt_users, tt_labels>>
            /\ \E data \in {IF days = None THEN csv_rows'
                            ELSE FilteredData(items', epic_tree',
                                              DaysWindow(now, days),
                                              users', labels')} :
                  result' = [op |-> "get_data", mode |-> "local",
                             success |-> TRUE,
                             args |-> <<token, group_path, epic_id>>,
                             days |-> days, data |-> data,
                             users |-> users', labels |-> labels',
                             cfd_stats |-> calculate_cfd_stats(IssueRows(data),
                                                               days, now)]

\* the requests: two tokens, the root epic or its sub-epic 3, and a request
\* without token
NextLocal ==
    \E refresh \in BOOLEAN, token \in {None, 1, 2}, epic_id \in RaceEpicIds,
       days \in {None} \cup 1..MaxDays, now \in NowChoices :
        GetDataLocal(refresh, token, 1, epic_id, days, now)

SpecLocal == InitReload /\ [][NextLocal]_vars

\* C26 (as claimed): the rows, users and labels a local-mode request
\* (without date filter) is answered with are those of the tree of the epic
\* the request names.
C26_AnswerComesFromRequestedTree ==
    (/\ result.op = "get_data" /\ result.mode = "local" /\ result.success
     /\ result.days = None) =>
        /\ result.data = LoadAlone(result.args[3]).data
        /\ result.users = LoadAlone(result.args[3]).users
        /\ result.labels = LoadAlone(result.args[3]).labels

====
